---- MODULE Spec2Model ----
(***************************************************************************)
(* Live reporting pipeline of middlewared/plugins/reporting.py:            *)
(* GraphiteHandler.handle (ingestion of collectd's graphite lines), the    *)
(* process-wide subscription map RRD_TYPE_QUEUES_EVENT with its lock, and  *)
(* ReportingEventSource (run / on_finish).                                 *)
(*                                                                         *)
(* A connection's byte stream is a sequence of tokens: every delimiter the *)
(* code looks at ("\r", "\n", " ", the first ".") is a token of its own,   *)
(* the text between two delimiters is one token.  The handler concatenates *)
(* what it reads before it looks at it, so a read boundary inside such a   *)
(* text is the same as one at its edge.                                    *)
(***************************************************************************)
EXTENDS Integers, Sequences, FiniteSets, TLC

\* ---------------------------------------------------------------- bounds
NumSources == 2        \* EventSources of the fan-out scenario
MaxLines == 2          \* lines on the connection of the ingestion scenario
MaxFanLines == 1       \* lines on the connection of the fan-out scenario
MaxTs == 12            \* timestamps of the window scenario: -MaxTs..MaxTs
MaxTypes == 2          \* rrd types of a plugin class given to export
MaxRef == 2            \* greatest number in a %name_<number>% reference
MaxGraphs == 2         \* graphs of a get_data call
MaxPage == 1           \* greatest page of a get_data query
MaxScan == 3           \* entries a scan of get_identifiers yields
MaxClasses == 2        \* plugin classes defined after RRDBase

Sources == 1..NumSources

\* Python's None (an identifier is None or <<string>>).
None == <<>>

\* ------------------------------------------------------- plugin registry
\* RRD_PLUGINS: graph name -> plugin class (RRDMeta); three of its entries.
RRD_PLUGINS == {"swap", "disk", "diskgeombusy"}

\* rrd.plugin of the class registered under a graph name.
plugin(name) ==
    CASE name = "swap" -> "swap"
      [] name = "disk" -> "disk"
      [] name = "diskgeombusy" -> "geom_stat"

\* str() of an identifier inside an f-string.
IdentStr(identifier) == IF identifier = None THEN "None" ELSE identifier[1]

\* The transforms of SwapPlugin (lines 445-446), cut at their references.
SwapUsed == <<"%name%", ",UN,0,", "%name%", ",IF">>
SwapFree == <<"%name%", ",UN,0,", "%name%", ",IF,", "%name_0%", ",+">>

\* rrd.get_rrd_types(identifier): sequence of <<type, dsname, transform>>.
get_rrd_types(name, identifier) ==
    CASE name = "swap" ->
            << <<"swap-used", "value", SwapUsed>>, <<"swap-free", "value", SwapFree>> >>
      [] name = "disk" ->
            << <<"disk_octets", "read", None>>, <<"disk_octets", "write", None>> >>
      [] name = "diskgeombusy" ->
            << <<"geom_busy_percent-" \o IdentStr(identifier), "value", None>> >>

\* -------------------------------------------------------- bytes and lines
RECURSIVE SplitRec(_, _, _, _)
SplitRec(s, sep, cur, acc) ==
    IF s = <<>> THEN Append(acc, cur)
    ELSE IF Len(s) >= Len(sep) /\ SubSeq(s, 1, Len(sep)) = sep
         THEN SplitRec(SubSeq(s, Len(sep) + 1, Len(s)), sep, <<>>, Append(acc, cur))
         ELSE SplitRec(Tail(s), sep, Append(cur, Head(s)), acc)

\* bytes.split(sep)
Split(s, sep) == SplitRec(s, sep, <<>>, <<>>)

CRLF == <<"\r", "\n">>

\* bytes.split(b'.', 1): at most one split, at the first ".".
RECURSIVE SplitDot1Rec(_, _)
SplitDot1Rec(s, cur) ==
    IF s = <<>> THEN <<cur>>
    ELSE IF Head(s) = "." THEN <<cur, Tail(s)>>
         ELSE SplitDot1Rec(Tail(s), Append(cur, Head(s)))

SplitDot1(s) == SplitDot1Rec(s, <<>>)

\* bytes.decode(): the text of a token sequence.
RECURSIVE decode(_)
decode(s) == IF s = <<>> THEN "" ELSE Head(s) \o decode(Tail(s))

\* The decimal numerals the collector writes as timestamps, with their values.
Numerals ==
    [t \in {"42", "1000", "1007", "1012"} |-> CASE t = "42" -> 42
        [] t = "1000" -> 1000 [] t = "1007" -> 1007 [] t = "1012" -> 1012]

\* int(b) succeeds on one numeral, optionally signed; it raises ValueError on
\* the empty string and on any other text.
IntOk(b) ==
    \/ Len(b) = 1 /\ b[1] \in DOMAIN Numerals
    \/ Len(b) = 2 /\ b[1] = "-" /\ b[2] \in DOMAIN Numerals

int(b) == IF Len(b) = 1 THEN Numerals[b[1]] ELSE 0 - Numerals[b[2]]

\* Lines 1186-1188: "ok" with the parsed name and timestamp, or the exception.
ParseLine(line) ==
    LET parts == Split(line, <<" ">>) IN
    IF Len(parts) # 3 THEN [exc |-> "ValueError"]
    ELSE IF ~IntOk(parts[3]) THEN [exc |-> "ValueError"]
    ELSE LET p == SplitDot1(parts[1]) IN
         IF Len(p) < 2 THEN [exc |-> "IndexError"]
         ELSE [exc |-> "", name |-> decode(p[2]), timestamp |-> int(parts[3])]

\* ------------------------------------------------------------------ state
VARIABLES
    sock,                   \* bytes of the connection not yet received
    hpc,                    \* GraphiteHandler.handle: position
    hexc,                   \* the exception that ended handle, "" if none
    last,                   \* handle: last
    lines,                  \* handle: lines[:-1] still to be looped over
    nameident_queues,       \* handle: dict nameident -> set (by reference)
    nameident_timestamps,   \* handle: dict nameident -> set of timestamps
    didx,                   \* handle: position of the loop of line 1195
    iter,                   \* handle: the set iterator of line 1196
    RRD_TYPE_QUEUES_EVENT,  \* the subscription map, entries in creation order
    RRD_TYPE_QUEUES_EVENT_LOCK,
    spc,                    \* EventSource.process: position
    arg,                    \* self.arg, decoded
    sidx,                   \* run: position of the loops of lines 1288-1289
    fidx,                   \* on_finish: position of the loop of line 1328
    cancel,                 \* self._cancel
    queue,                  \* self.queue
    queue_reverse,          \* self.queue_reverse
    sexc,                   \* the exception that ended on_finish, "" if none
    query,                  \* the last reporting.get_data call of run
    events,                 \* number of ADDED events sent
    failed,                 \* number of notifications the except of line 1319 caught
    received,               \* history: every byte the handler received
    processed,              \* history: every line the loop of 1185 was run on
    batch,                  \* history: lines[:-1] of the current batch
    looked,                 \* history: per line of the batch, the keys found
    snapshot,               \* history: per nameident, the set at its lookup
    delivered,              \* history: the puts of the current batch
    stable,                 \* history: sources subscribed since the batch began
    opens,                  \* EventSources the clients may still open
    requests,               \* the arguments they may open them with
    gpc,                    \* get_data: position
    graphs,                 \* get_data: graphs
    rquery,                 \* get_data: query, after the defaults of the schema
    supplied,               \* history: the keys of the query the caller gave
    window,                 \* get_data: starttime, endtime
    gidx,                   \* get_data: position of the loop of line 1118
    rv,                     \* get_data: rv
    gexc,                   \* the exception that ended get_data, if any
    calls,                  \* history: the runs of rrdtool (line 217)
    self,                   \* export: the plugin object it is called on
    xpc,                    \* export: position of a call made on self
    xout,                   \* export: what that call returned or raised
    iname,                  \* get_identifiers: the graph name of the plugin
    scan,                   \* get_identifiers: what glob (or df) yields, in order
    ids,                    \* get_identifiers: ids
    ipc,                    \* get_identifiers: position
    rrd_plugins,            \* RRD_PLUGINS while classes are defined: name -> class
    classes,                \* the classes RRDMeta.__new__ returned, in order
    mexc,                   \* the exception of the last class definition, "" if none
    config,                 \* the row of system.reporting in the datastore
    collectd,               \* the collectd service: "running" or "stopped"
    persist_file,           \* PERSIST_FILE exists
    database,               \* archive files exist under /var/db/collectd/rrd
    upc,                    \* do_update: position
    udata,                  \* do_update: data, as the caller gave it
    frame,                  \* do_update: old, new, update_ramdisk, destroy_database
    uexc,                   \* the exception that ended do_update, "" if none
    services,               \* history: the service.* calls of do_update
    tunit,                  \* paging: the unit of the queries
    tnow,                   \* the time at which rrdtool resolves a window
    tiles,                  \* paging: page -> the window rrdtool resolved
    archive                 \* the rows the archive files hold (collectd writes them)

hvars == <<sock, hpc, hexc, last, lines, nameident_queues,
           nameident_timestamps, didx, iter>>
svars == <<spc, arg, sidx, fidx, cancel, queue, queue_reverse, sexc, query, events, failed>>
gvars == <<received, processed, batch, looked, snapshot, delivered, stable>>
qvars == <<gpc, graphs, rquery, supplied, window, gidx, rv, gexc, calls, self, xpc, xout>>
ivars == <<iname, scan, ids, ipc>>
mvars == <<rrd_plugins, classes, mexc>>
uvars == <<config, collectd, persist_file, database, upc, udata, frame, uexc, services>>
tvars == <<tunit, tnow, tiles>>
ovars == <<ivars, mvars, uvars, tvars, archive>>
vars == <<hvars, svars, gvars, RRD_TYPE_QUEUES_EVENT, RRD_TYPE_QUEUES_EVENT_LOCK,
          opens, requests, qvars, ovars>>

\* Holders of RRD_TYPE_QUEUES_EVENT_LOCK.
Free == <<>>
Handler == <<"handler">>

\* ---------------------------------------------------------------- inputs
Sample(path, value, timestamp) == <<"localhost", ".", path, " ", value, " ", timestamp>>

\* The lines a collector may write (without the delimiter): samples of the
\* swap and disk plugins, and the three malformed shapes lines 1186-1188 raise on.
LineKinds ==
    { Sample("swap.swap-used.value", "42", "1000"),
      Sample("swap.swap-free.value", "42", "1007"),
      Sample("disk-ada0.disk_octets.read", "42", "1012"),
      <<"localhost", ".", "swap.swap-used.value", " ", "1000">>,
      <<"localhost", ".", "swap.swap-used.value", " ", "42", " ", "now">>,
      <<"swap", " ", "42", " ", "1000">> }

\* The lines of the fan-out scenario.
FanLineKinds == { Sample("swap.swap-used.value", "42", "1000") }

\* The byte streams of a connection: up to n lines, each with its delimiter.
RECURSIVE StreamsOf(_, _)
StreamsOf(kinds, n) ==
    IF n = 0 THEN {<<>>}
    ELSE LET shorter == StreamsOf(kinds, n - 1) IN
         shorter \cup {k \o CRLF \o t : k \in kinds, t \in shorter}

Streams == StreamsOf(LineKinds, MaxLines) \ {<<>>}
FanStreams == StreamsOf(FanLineKinds, MaxFanLines) \ {<<>>}

Graph(name, identifier) == [name |-> name, identifier |-> identifier]

\* The requests an EventSource may be opened with.
ArgSet ==
    { <<Graph("swap", None)>>,
      <<Graph("disk", <<"ada0">>)>>,
      <<Graph("diskgeombusy", <<"ada0">>), Graph("diskgeombusy", <<"ada0">>),
        Graph("swap", None)>> }

\* The requests of the fan-out scenario.
FanArgSet ==
    { <<Graph("swap", None)>>,
      <<Graph("diskgeombusy", <<"ada0">>)>> }

\* ------------------------------------------------------------ dictionaries
\* dict[k] = v on a dict kept as a sequence of [k, v] in insertion order.
RECURSIVE DictSet(_, _, _)
DictSet(d, k, v) ==
    IF d = <<>> THEN <<[k |-> k, v |-> v]>>
    ELSE IF Head(d).k = k THEN <<[k |-> k, v |-> v]>> \o Tail(d)
         ELSE <<Head(d)>> \o DictSet(Tail(d), k, v)

\* dict.update(items), items a sequence of [k, v].
RECURSIVE DictUpdate(_, _)
DictUpdate(d, items) ==
    IF items = <<>> THEN d
    ELSE DictUpdate(DictSet(d, Head(items).k, Head(items).v), Tail(items))

\* Positions of the entries of RRD_TYPE_QUEUES_EVENT[name], in creation order.
RECURSIVE EntriesOf(_, _, _)
EntriesOf(map, name, i) ==
    IF i > Len(map) THEN <<>>
    ELSE (IF map[i].name = name THEN <<i>> ELSE <<>>) \o EntriesOf(map, name, i + 1)

\* RRD_TYPE_QUEUES_EVENT[name].items() as [k |-> nameident, v |-> reference to
\* the set]: an entry is never deleted, so its position is the set's identity.
ItemsOf(map, name) ==
    LET e == EntriesOf(map, name, 1) IN
    [j \in 1..Len(e) |-> [k |-> map[e[j]].nameident, v |-> e[j]]]

\* nameident_timestamps.get(nameident)
TimestampsGet(nts, nameident) == {p[2] : p \in {x \in nts : x[1] = nameident}}

\* ------------------------------------------------------ RRDBase.get_defs
\* RRDBase.aggregations, which no plugin class of the file overrides.
aggregations == <<"min", "mean", "max">>

\* identifier_plugin of the class registered under a graph name.
identifier_plugin(name) == name # "diskgeombusy"

\* The plugin object of a graph name, with get_rrd_types(identifier) taken.
Rrd(name, identifier) ==
    [name |-> name, plugin |-> plugin(name),
     identifier_plugin |-> identifier_plugin(name),
     rrd_types |-> get_rrd_types(name, identifier),
     rrd_data_extra |-> None,
     aggregations |-> aggregations]

\* Lines 166-170: the archive file of an rrd type.
RrdPath(rrd, identifier, type) ==
    LET direc == IF rrd.identifier_plugin /\ identifier # None
                 THEN rrd.plugin \o "-" \o identifier[1]
                 ELSE rrd.plugin
    IN "/var/db/collectd/rrd/localhost/" \o direc \o "/" \o type \o ".rrd"

\* Lines 164-176: defs, the name and transform of each rrd type in order
\* (defs[i] of the code is Defs(rrd_types)[i + 1]).
Defs(rrd_types) ==
    [i \in 1..Len(rrd_types) |->
        [name |-> rrd_types[i][1] \o "_" \o rrd_types[i][2], transform |-> rrd_types[i][3]]]

\* The text RE_NAME matches for a number.
RefToken(number) == "%name_" \o ToString(number) \o "%"

\* RE_NAME.findall on one piece of a transform: the numbers it refers to.
RefNumbers(token) == {number \in 0..MaxRef : token = RefToken(number)}

\* A substitution that would take only the series defined before defs[i].
ResolveTransformStrict(defs, i) ==
    LET own == [k \in 1..Len(defs[i].transform) |->
                   IF defs[i].transform[k] = "%name%" THEN defs[i].name
                   ELSE defs[i].transform[k]]
        numbers == UNION {RefNumbers(own[k]) : k \in 1..Len(own)}
    IN IF \E number \in numbers : number + 1 \notin 1..(i - 1)
       THEN [exc |-> "KeyError", transform |-> <<>>]
       ELSE [exc |-> "",
             transform |->
                [k \in 1..Len(own) |->
                    IF RefNumbers(own[k]) # {}
                    THEN defs[(CHOOSE number \in RefNumbers(own[k]) : TRUE) + 1].name
                    ELSE own[k]]]

\* Lines 183-187 for the transform of defs[i]: %name% is replaced by the
\* series' own name, then every %name_<number>% by defs[number]['name'];
\* a number that is no key of defs raises KeyError.
ResolveTransform(defs, i) ==
    LET own == [k \in 1..Len(defs[i].transform) |->
                   IF defs[i].transform[k] = "%name%" THEN defs[i].name
                   ELSE defs[i].transform[k]]
        numbers == UNION {RefNumbers(own[k]) : k \in 1..Len(own)}
    IN IF \E number \in numbers : number + 1 \notin 1..Len(defs)
       THEN [exc |-> "KeyError", transform |-> <<>>]
       ELSE [exc |-> "",
             transform |->
                [k \in 1..Len(own) |->
                    IF RefNumbers(own[k]) # {}
                    THEN defs[(CHOOSE number \in RefNumbers(own[k]) : TRUE) + 1].name
                    ELSE own[k]]]

\* A loop that would append the DEFs from the last rrd type to the first.
DefArgsReversed(rrd, identifier) ==
    [i \in 1..Len(rrd.rrd_types) |->
        LET j == Len(rrd.rrd_types) + 1 - i IN
        [kind |-> "DEF", vname |-> Defs(rrd.rrd_types)[j].name,
         path |-> RrdPath(rrd, identifier, rrd.rrd_types[j][1]),
         dsname |-> rrd.rrd_types[j][2]]]

\* Lines 171-179: the DEF of each rrd type.
DefArgs(rrd, identifier) ==
    [i \in 1..Len(rrd.rrd_types) |->
        [kind |-> "DEF", vname |-> Defs(rrd.rrd_types)[i].name,
         path |-> RrdPath(rrd, identifier, rrd.rrd_types[i][1]),
         dsname |-> rrd.rrd_types[i][2]]]

\* Lines 181-193: the CDEF and XPORT of defs[i], from the i-th on.
RECURSIVE XportArgs(_, _)
XportArgs(defs, i) ==
    IF i > Len(defs) THEN <<>>
    ELSE (IF defs[i].transform # None
          THEN << [kind |-> "CDEF", vname |-> "c" \o defs[i].name,
                   expr |-> ResolveTransform(defs, i).transform],
                  [kind |-> "XPORT", vname |-> "c" \o defs[i].name,
                   legend |-> defs[i].name] >>
          ELSE << [kind |-> "XPORT", vname |-> defs[i].name, legend |-> defs[i].name] >>)
         \o XportArgs(defs, i + 1)

\* rrd_data_extra of DFPlugin (lines 457-460) after split(): one entry per
\* word, the expression of its CDEF cut at its references.
ExtraBoth ==
    << [kind |-> "CDEF", vname |-> "both", expr |-> <<"%name_0%", ",", "%name_1%", ",+">>],
       [kind |-> "XPORT", vname |-> "both", legend |-> "both"] >>

\* Lines 195-203: every %name_<number>% of rrd_data_extra is replaced by the
\* name of defs[number], with a leading c when that series has a transform;
\* a number that is no key of defs raises KeyError.
ExtraArgs(defs, extra) ==
    LET numbers == UNION {IF extra[a].kind = "CDEF"
                          THEN UNION {RefNumbers(extra[a].expr[k]) :
                                         k \in 1..Len(extra[a].expr)}
                          ELSE {} : a \in 1..Len(extra)}
        Name(number) == IF defs[number + 1].transform # None
                        THEN "c" \o defs[number + 1].name
                        ELSE defs[number + 1].name
    IN IF \E number \in numbers : number + 1 \notin 1..Len(defs)
       THEN [exc |-> "KeyError", args |-> <<>>]
       ELSE [exc |-> "",
             args |->
                [a \in 1..Len(extra) |->
                    IF extra[a].kind = "CDEF"
                    THEN [extra[a] EXCEPT !.expr =
                            [k \in 1..Len(@) |->
                                IF RefNumbers(@[k]) # {}
                                THEN Name(CHOOSE number \in RefNumbers(@[k]) : TRUE)
                                ELSE @[k]]]
                    ELSE extra[a]]]

\* RRDBase.get_defs(identifier): the exception it raises or the argument
\* list it returns.
get_defs(rrd, identifier) ==
    LET defs == Defs(rrd.rrd_types)
        extra == ExtraArgs(defs, rrd.rrd_data_extra)
    IN
    IF rrd.rrd_types = <<>>
    THEN [exc |-> "RuntimeError", args |-> <<>>]
    ELSE IF \E i \in 1..Len(defs) :
                defs[i].transform # None /\ ResolveTransform(defs, i).exc # ""
         THEN [exc |-> "KeyError", args |-> <<>>]
         ELSE IF extra.exc # ""
              THEN [exc |-> "KeyError", args |-> <<>>]
              ELSE [exc |-> "",
                    args |-> DefArgs(rrd, identifier) \o XportArgs(defs, 1) \o extra.args]

\* ------------------------------------------- rrdtool's time specification
\* The AT-style times export hands to rrdtool as --start and --end: now, a
\* reference (now, or the other end of the window) less n units, or the
\* seconds since the epoch a caller gave as start or end.
AtSpecs ==
    [ref : {"now", "end"}, n : 0..(MaxPage + 2), unit : {"h", "d", "w"}]
    \cup [ref : {"epoch"}, n : {1000, 2000}, unit : {"s"}]

\* The text of a time as the f-strings of lines 1064-1068 write it.
AtText(spec) ==
    IF spec.ref = "epoch" THEN ToString(spec.n)
    ELSE IF spec.ref = "now" /\ spec.n = 0 THEN "now"
    ELSE spec.ref \o "-" \o ToString(spec.n) \o spec.unit

\* rrdtool reading a time back from its text.
AtParse(text) == CHOOSE spec \in AtSpecs : AtText(spec) = text

Seconds(unit) ==
    CASE unit = "h" -> 3600
      [] unit = "d" -> 86400
      [] unit = "w" -> 604800

\* rrdtool resolving --start and --end at the time now: the end first, then
\* the start, in which end stands for the resolved end.
AtResolve(starttime, endtime, now) ==
    LET e == AtParse(endtime)
        b == AtParse(starttime)
        end == IF e.ref = "epoch" THEN e.n ELSE now - e.n * Seconds(e.unit)
    IN [start |-> IF b.ref = "epoch" THEN b.n
                  ELSE (IF b.ref = "end" THEN end ELSE now) - b.n * Seconds(b.unit),
        end |-> end]

\* -------------------------------------------------------- RRDBase.export
\* The archive files get_defs names for the rrd types of a plugin.
RrdPaths(rrd, identifier) ==
    {RrdPath(rrd, identifier, rrd.rrd_types[i][1]) : i \in 1..Len(rrd.rrd_types)}

\* The legends of the XPORTs among args, in order.
RECURSIVE Legend(_)
Legend(args) ==
    IF args = <<>> THEN <<>>
    ELSE (IF Head(args).kind = "XPORT" THEN <<Head(args).legend>> ELSE <<>>)
         \o Legend(Tail(args))

\* subprocess.run of rrdtool xport (line 217).  env is what the run meets:
\* the archive files that do not exist, whether it fails for another
\* reason, the rows the archive files hold and the time.  rrdtool fails on a
\* DEF of a file it cannot open, and otherwise exports one column per XPORT
\* with the rows of the files of its DEFs that lie in the window.
rrdtool(args, starttime, endtime, env) ==
    LET gone == {k \in 1..Len(args) : args[k].kind = "DEF" /\ args[k].path \in env.missing}
    IN IF gone # {}
       THEN [returncode |-> 1,
             stderr |-> "ERROR: opening '" \o args[CHOOSE k \in gone : \A j \in gone : k <= j].path
                        \o "': No such file or directory",
             legend |-> <<>>, data |-> {}]
       ELSE IF env.fail
            THEN [returncode |-> 1, stderr |-> "ERROR: rrdcached", legend |-> <<>>,
                  data |-> {}]
            ELSE [returncode |-> 0, stderr |-> "", legend |-> Legend(args),
                  data |-> {r \in env.archive :
                               /\ \E k \in 1..Len(args) :
                                     /\ args[k].kind = "DEF"
                                     /\ args[k].path = r.path /\ args[k].dsname = r.dsname
                               /\ LET w == AtResolve(starttime, endtime, env.now)
                                  IN w.start <= r.timestamp /\ r.timestamp <= w.end}]

\* An export that would take no notice of the exit status of rrdtool.
ExportFailsNever(cp) == FALSE

\* Line 218: the run of rrdtool failed.
ExportFails(cp) == cp.returncode # 0

\* A check of the aggregation names that would let sum through.
AnyAggregation == {"max", "mean", "min", "sum"}

\* Line 233: the aggregation names export computes.
ValidAggregations == {"max", "mean", "min"}

\* Lines 230-236: the keys of data['aggregations'], or the error of the
\* first aggregation that is none of max, mean, min.
Aggregations(rrd, aggregate) ==
    LET invalid == {k \in 1..Len(rrd.aggregations) :
                       rrd.aggregations[k] \notin ValidAggregations}
    IN IF ~(rrd.aggregations # <<>> /\ aggregate)
       THEN [exc |-> "", msg |-> "", keys |-> {}]
       ELSE IF invalid # {}
            THEN [exc |-> "RuntimeError",
                  msg |-> "Aggregation '"
                          \o rrd.aggregations[CHOOSE k \in invalid : \A j \in invalid : k <= j]
                          \o "' is invalid.",
                  keys |-> {}]
            ELSE [exc |-> "", msg |-> "",
                  keys |-> {rrd.aggregations[k] : k \in 1..Len(rrd.aggregations)}]

\* RRDBase.export(identifier, starttime, endtime, aggregate): the exception
\* it raises or the data it returns, and the runs of rrdtool it made.
export(rrd, identifier, starttime, endtime, aggregate, env) ==
    LET d == get_defs(rrd, identifier)
        cp == rrdtool(d.args, starttime, endtime, env)
        run == [args |-> d.args, starttime |-> starttime, endtime |-> endtime,
                missing |-> env.missing \cap RrdPaths(rrd, identifier),
                returncode |-> cp.returncode, stderr |-> cp.stderr]
        a == Aggregations(rrd, aggregate)
    IN IF d.exc # ""
       THEN [exc |-> d.exc, msg |-> "", runs |-> <<>>, data |-> <<>>]
       ELSE IF ExportFails(cp)
            THEN [exc |-> "RuntimeError",
                  msg |-> "Failed to export RRD data: " \o cp.stderr,
                  runs |-> <<run>>, data |-> <<>>]
            ELSE IF a.exc # ""
                 THEN [exc |-> a.exc, msg |-> a.msg, runs |-> <<run>>, data |-> <<>>]
                 ELSE [exc |-> "", msg |-> "", runs |-> <<run>>,
                       data |-> <<[name |-> rrd.name, identifier |-> identifier,
                                   data |-> cp.data, legend |-> cp.legend,
                                   aggregations |-> a.keys]>>]

\* ---------------------------------------------- ReportingService.get_data
\* The graphs a caller may ask for; "nosuch" is no key of RRD_PLUGINS.
GraphKinds == {Graph("swap", None), Graph("disk", <<"ada0">>), Graph("nosuch", None)}

RECURSIVE GraphLists(_)
GraphLists(n) ==
    IF n = 0 THEN {<<>>}
    ELSE GraphLists(n - 1)
         \cup {Append(l, g) : l \in {x \in GraphLists(n - 1) : Len(x) = n - 1}, g \in GraphKinds}

\* A reporting_query dict as the caller gives it: keys are the keys it holds;
\* the field of a key it does not hold is not read before the schema's
\* default is in place.
ClientQuery(keys, unit, page, aggregate) ==
    [keys |-> keys,
     unit |-> IF "unit" \in keys THEN unit ELSE "",
     page |-> IF "page" \in keys THEN page ELSE 0,
     start |-> IF "start" \in keys THEN "1000" ELSE "",
     end |-> IF "end" \in keys THEN "2000" ELSE "",
     aggregate |-> IF "aggregate" \in keys THEN aggregate ELSE TRUE]

ClientQueries ==
    {ClientQuery(keys, unit, page, aggregate) :
        keys \in SUBSET {"unit", "page", "start", "end", "aggregate"},
        unit \in {"HOUR", "DAY"}, page \in 1..MaxPage, aggregate \in BOOLEAN}

\* The defaults of the schema of lines 1079-1087: page 0 and aggregate True.
accepts(q) ==
    [q EXCEPT !.keys = @ \cup {"page", "aggregate"},
              !.page = IF "page" \in q.keys THEN @ ELSE 0,
              !.aggregate = IF "aggregate" \in q.keys THEN @ ELSE TRUE]

\* unit[0].lower()
FirstLower(unit) ==
    CASE unit \in {"HOUR", "HOURLY"} -> "h"
      [] unit = "DAY" -> "d"
      [] unit = "WEEK" -> "w"

\* __rquery_to_start_end(query), with verrors.check() raising
\* ValidationErrors when an error was added.
rquery_to_start_end(q) ==
    LET given == IF "unit" \in q.keys THEN q.unit ELSE ""
        errors == IF given # "" THEN {i \in {"start", "end"} : i \in q.keys} ELSE {}
        unit == IF given # "" THEN given
                ELSE IF "start" \notin q.keys THEN "HOURLY" ELSE ""
    IN IF errors # {}
       THEN [exc |-> "ValidationErrors", starttime |-> "", endtime |-> ""]
       ELSE IF unit # ""
            THEN [exc |-> "",
                  starttime |-> "end-" \o ToString(q.page + 1) \o FirstLower(unit),
                  endtime |-> IF q.page = 0 THEN "now"
                              ELSE "now-" \o ToString(q.page) \o FirstLower(unit)]
            ELSE [exc |-> "", starttime |-> q.start,
                  endtime |-> IF "end" \in q.keys THEN q.end ELSE "now"]

NoExc == [type |-> "", errno |-> "", msg |-> ""]
NoWindow == [starttime |-> "", endtime |-> ""]
NoResult == [identifier |-> None, aggregate |-> FALSE, missing |-> {}, fail |-> FALSE,
             exc |-> "", msg |-> "", data |-> <<>>]

\* No get_data call has been made.
QueryIdle ==
    /\ gpc = "idle" /\ graphs = <<>> /\ rquery = accepts(ClientQuery({}, "", 0, TRUE))
    /\ supplied = {} /\ window = NoWindow /\ gidx = 1 /\ rv = <<>>
    /\ gexc = NoExc /\ calls = <<>>

\* No export is called on a plugin object of its own.
ExportIdle == self = Rrd("swap", None) /\ xpc = "idle" /\ xout = NoResult

\* ---------------------------------------------- get_identifiers (sorting)
\* A text is the sequence of its characters.  Ascii holds the characters of
\* the identifiers here in the order of their code points.
Ascii == <<"/", "0", "1", "2", "3", "4", "5", "6", "7", "8", "9", ":",
           "a", "c", "d", "h", "i", "l", "m", "n", "o", "p", "s", "t">>

Ord(c) == CHOOSE k \in 1..Len(Ascii) : Ascii[k] = c

Digits == {"0", "1", "2", "3", "4", "5", "6", "7", "8", "9"}

\* int() of a text of digits.
RECURSIVE IntOf(_)
IntOf(d) ==
    IF d = <<>> THEN 0
    ELSE 10 * IntOf(SubSeq(d, 1, Len(d) - 1)) + (Ord(d[Len(d)]) - Ord("0"))

Lesser(m, n) == IF m < n THEN m ELSE n

\* a < b for two str.
StrLess(a, b) ==
    \/ Len(a) < Len(b) /\ SubSeq(b, 1, Len(a)) = a
    \/ \E k \in 1..Lesser(Len(a), Len(b)) :
          /\ SubSeq(a, 1, k - 1) = SubSeq(b, 1, k - 1)
          /\ Ord(a[k]) < Ord(b[k])

\* A sort key is a tuple of str followed by int: [strs, nums].  a < b for two
\* tuples: by the first element that differs, a proper prefix being less.
KeyLess(a, b) ==
    \/ \E k \in 1..Lesser(Len(a.strs), Len(b.strs)) :
          /\ SubSeq(a.strs, 1, k - 1) = SubSeq(b.strs, 1, k - 1)
          /\ StrLess(a.strs[k], b.strs[k])
    \/ /\ a.strs = b.strs
       /\ \/ Len(a.nums) < Len(b.nums) /\ SubSeq(b.nums, 1, Len(a.nums)) = a.nums
          \/ \E k \in 1..Lesser(Len(a.nums), Len(b.nums)) :
                /\ SubSeq(a.nums, 1, k - 1) = SubSeq(b.nums, 1, k - 1)
                /\ a.nums[k] < b.nums[k]

\* RE_NAME_NUMBER.search(entry), (.+?)(\d+)$: the digits at the end of the
\* entry, less the first character when the entry is all digits, and the
\* text before them; no match without a digit at the end or a text before.
NameNumber(entry) ==
    LET nondigit == {k \in 1..Len(entry) : entry[k] \notin Digits}
        cut == IF nondigit = {} THEN 1
               ELSE CHOOSE k \in nondigit : \A j \in nondigit : j <= k
    IN IF cut >= Len(entry)
       THEN [match |-> FALSE, name |-> <<>>, number |-> <<>>]
       ELSE [match |-> TRUE, name |-> SubSeq(entry, 1, cut),
             number |-> SubSeq(entry, cut + 1, Len(entry))]

\* RRDBase._sort_disks(entry)
sort_disks(entry) ==
    LET reg == NameNumber(entry) IN
    IF ~reg.match THEN [strs |-> <<entry>>, nums |-> <<>>]
    ELSE [strs |-> <<reg.name>>, nums |-> <<IntOf(reg.number)>>]

\* RE_COLON.search(entry), (.+):(.+)$: the entry cut at its last colon that
\* has a text on either side.
Colon(entry) ==
    LET at == {k \in 2..(Len(entry) - 1) : entry[k] = ":"}
        cut == CHOOSE k \in at : \A j \in at : j <= k
    IN IF at = {} THEN [match |-> FALSE, pref |-> <<>>, body |-> <<>>]
       ELSE [match |-> TRUE, pref |-> SubSeq(entry, 1, cut - 1),
             body |-> SubSeq(entry, cut + 1, Len(entry))]

\* RRDBase._sort_ports(entry)
sort_ports(entry) ==
    LET colon == Colon(entry)
        pref == IF entry = <<"h", "a">> THEN <<"0">>
                ELSE IF colon.match THEN colon.pref ELSE <<>>
        body == IF entry # <<"h", "a">> /\ colon.match THEN colon.body ELSE entry
        reg == NameNumber(body)
    IN IF ~reg.match THEN [strs |-> <<pref, body>>, nums |-> <<-1>>]
       ELSE [strs |-> <<pref, reg.name>>, nums |-> <<IntOf(reg.number)>>]

\* list.sort(key=...) with keys[i] the key of l[i]: stable, an entry stands
\* after those of a lesser key and after those of an equal key that stood
\* before it.
SortBy(l, keys) ==
    LET Before(j, i) == \/ KeyLess(keys[j], keys[i])
                        \/ ~KeyLess(keys[i], keys[j]) /\ j < i
        rank == [i \in 1..Len(l) |-> Cardinality({j \in 1..Len(l) : Before(j, i)}) + 1]
    IN [r \in 1..Len(l) |-> l[CHOOSE i \in 1..Len(l) : rank[i] = r]]

\* The plugins whose get_identifiers scans the filesystem (or runs df).
ScanPlugins == {"disktemp", "interface", "df", "ctl", "disk", "geom_stat"}

StartsWith(entry, prefix) ==
    Len(entry) >= Len(prefix) /\ SubSeq(entry, 1, Len(prefix)) = prefix

EndsWith(entry, suffix) ==
    Len(entry) >= Len(suffix)
    /\ SubSeq(entry, Len(entry) - Len(suffix) + 1, Len(entry)) = suffix

\* RE_DISK.match(ident), ^[a-z]+[0-9]+$
Disk(ident) ==
    \E cut \in 1..(Len(ident) - 1) :
        /\ \A k \in 1..cut : ident[k] \notin Digits \cup {"/", ":"}
        /\ \A k \in (cut + 1)..Len(ident) : ident[k] \in Digits

\* The ids a get_identifiers appends, in the order of the scan.  An item of
\* the scan is the ident cut from a path of glob (the mount point of a line
\* of df) and whether the tests on the system let it through: os.path.exists
\* of its archive file and of its device, its name in interface.query.
RECURSIVE Appended(_, _)
Appended(name, items) ==
    IF items = <<>> THEN <<>>
    ELSE LET ident == Head(items).ident
             skip ==
                CASE name = "df" -> ident # <<"/">> /\ ~StartsWith(ident, <<"/", "m", "n", "t">>)
                  [] name = "ctl" -> EndsWith(ident, <<"i", "o", "c", "t", "l">>)
                  [] name = "disk" -> StartsWith(ident, <<"p", "a", "s", "s">>)
                  [] name = "geom_stat" ->
                        ~Disk(ident) \/ StartsWith(ident, <<"p", "a", "s", "s">>)
                  [] OTHER -> FALSE
         IN (IF ~skip /\ Head(items).exists THEN <<ident>> ELSE <<>>)
            \o Appended(name, Tail(items))

\* get_identifiers of DiskTempPlugin, InterfacePlugin, DFPlugin, CTLPlugin,
\* DiskPlugin and GeomStatBase.
get_identifiers(name, items) ==
    LET l == Appended(name, items) IN
    CASE name = "df" -> l
      [] name = "ctl" -> SortBy(l, [i \in 1..Len(l) |-> sort_ports(l[i])])
      [] OTHER -> SortBy(l, [i \in 1..Len(l) |-> sort_disks(l[i])])

\* No get_identifiers is called.
IdentIdle == iname = "disk" /\ scan = <<>> /\ ids = <<>> /\ ipc = "idle"

\* ------------------------------------------------------- RRDMeta.__new__
\* A class is [cname, suffix, plugin, name]: its name is cname followed by
\* Plugin when suffix, and an attribute it does not have is NoAttr.
NoAttr == ""

\* reg.group('name').lower() for the class names here.
Lower(cname) ==
    CASE cname \in {"Swap", "SWAP"} -> "swap"
      [] cname = "Disk" -> "disk"

\* RRDMeta.__new__(cls, name, bases, dct) for a class statement with one
\* base (0 is RRDBase, which has neither plugin nor name) and the
\* attributes plugin and name its body sets (NoAttr when it sets none).
RRDMetaNew(cname, suffix, base, dct) ==
    LET inherited == IF base = 0 THEN [plugin |-> NoAttr, name |-> NoAttr]
                     ELSE [plugin |-> classes[base].plugin, name |-> classes[base].name]
        has == [plugin |-> IF dct.plugin # NoAttr THEN dct.plugin ELSE inherited.plugin,
                name |-> IF dct.name # NoAttr THEN dct.name ELSE inherited.name]
        reg == suffix
        klass == [cname |-> cname, suffix |-> suffix,
                  plugin |-> IF reg /\ has.plugin = NoAttr THEN Lower(cname) ELSE has.plugin,
                  name |-> IF reg /\ has.name = NoAttr THEN Lower(cname) ELSE has.name]
    IN IF ~reg /\ has.plugin = NoAttr
       THEN [exc |-> "ValueError", klass |-> klass, registers |-> FALSE]
       ELSE IF ~reg /\ has.name = NoAttr
            THEN [exc |-> "ValueError", klass |-> klass, registers |-> FALSE]
            ELSE [exc |-> "", klass |-> klass, registers |-> TRUE]

\* No class is being defined.
MetaIdle == rrd_plugins = <<>> /\ classes = <<>> /\ mexc = ""

\* ------------------------------------------- ReportingService.do_update
\* The fields of the configuration do_update looks at.
ConfigKeys == {"rrd_usedataset", "rrd_ramdisk_size", "graph_timespans", "graph_rows"}

\* A reporting_update dict as the caller gives it: keys are the keys it
\* holds; the field of a key it does not hold is never read.
UpdateData(keys, usedataset, size, timespans, rows, confirm) ==
    [keys |-> keys,
     rrd_usedataset |-> IF "rrd_usedataset" \in keys THEN usedataset ELSE FALSE,
     rrd_ramdisk_size |-> IF "rrd_ramdisk_size" \in keys THEN size ELSE 0,
     graph_timespans |-> IF "graph_timespans" \in keys THEN timespans ELSE <<>>,
     graph_rows |-> IF "graph_rows" \in keys THEN rows ELSE 0,
     confirm_rrd_destroy |-> IF "confirm_rrd_destroy" \in keys THEN confirm ELSE FALSE]

\* Lines 768-769: new = copy.deepcopy(old); new.update(data).
Updated(old, d) ==
    [rrd_usedataset |-> IF "rrd_usedataset" \in d.keys
                        THEN d.rrd_usedataset ELSE old.rrd_usedataset,
     rrd_ramdisk_size |-> IF "rrd_ramdisk_size" \in d.keys
                          THEN d.rrd_ramdisk_size ELSE old.rrd_ramdisk_size,
     graph_timespans |-> IF "graph_timespans" \in d.keys
                         THEN d.graph_timespans ELSE old.graph_timespans,
     graph_rows |-> IF "graph_rows" \in d.keys THEN d.graph_rows ELSE old.graph_rows]

\* A loop that would add no error for a change without confirmation.
UnconfirmedNever(old, new, confirm_rrd_destroy) == {}

\* Lines 790-799: the keys an error is added for.
Unconfirmed(old, new, confirm_rrd_destroy) ==
    {k \in {"graph_timespans", "graph_rows"} : old[k] # new[k] /\ ~confirm_rrd_destroy}

NoData == UpdateData({}, FALSE, 0, <<>>, 0, FALSE)

DefaultConfig ==
    [rrd_usedataset |-> FALSE, rrd_ramdisk_size |-> 2,
     graph_timespans |-> <<3600>>, graph_rows |-> 1]

NoFrame ==
    [old |-> DefaultConfig, new |-> DefaultConfig,
     update_ramdisk |-> FALSE, destroy_database |-> FALSE,
     before |-> [collectd |-> "running", persist_file |-> FALSE, database |-> TRUE]]

\* No reporting.update is under way.
UpdateIdle ==
    /\ config = DefaultConfig /\ collectd = "running" /\ persist_file = FALSE
    /\ database = TRUE /\ upc = "idle" /\ udata = NoData /\ frame = NoFrame
    /\ uexc = "" /\ services = <<>>

\* No paged query is under way.
TileIdle == tunit = "HOUR" /\ tnow = 0 /\ tiles = <<>>

\* No scenario of the further ones is under way.
OtherIdle == IdentIdle /\ MetaIdle /\ UpdateIdle /\ TileIdle /\ archive = {}

\* ------------------------------------------------------------------- Init
NoIter == [size |-> 0, init |-> {}, visited |-> {}]
NoQuery == [name |-> "", identifier |-> None, start |-> 0, end |-> 0, aggregate |-> FALSE,
            timestamps |-> {}]

\* The state when a connection of the collector has been accepted and no
\* EventSource is open.
Idle ==
    /\ hpc = "recv" /\ hexc = "" /\ last = <<>> /\ lines = <<>>
    /\ nameident_queues = <<>> /\ nameident_timestamps = {}
    /\ didx = 1 /\ iter = NoIter
    /\ RRD_TYPE_QUEUES_EVENT = <<>>
    /\ RRD_TYPE_QUEUES_EVENT_LOCK = Free
    /\ spc = [s \in Sources |-> "idle"]
    /\ arg = [s \in Sources |-> <<>>]
    /\ sidx = [s \in Sources |-> 1]
    /\ fidx = [s \in Sources |-> 1]
    /\ cancel = [s \in Sources |-> FALSE]
    /\ queue = [s \in Sources |-> <<>>]
    /\ queue_reverse = [s \in Sources |-> <<>>]
    /\ sexc = [s \in Sources |-> ""]
    /\ query = [s \in Sources |-> NoQuery]
    /\ events = [s \in Sources |-> 0]
    /\ failed = [s \in Sources |-> 0]
    /\ received = <<>> /\ processed = <<>> /\ batch = <<>> /\ looked = <<>>
    /\ snapshot = <<>> /\ delivered = <<>> /\ stable = {}

\* Two scenarios: ingestion (any stream of Streams, one EventSource with any
\* request of ArgSet) and fan-out (NumSources EventSources on a stream of
\* matching samples).
Init ==
    /\ Idle /\ QueryIdle /\ ExportIdle /\ OtherIdle
    /\ \/ sock \in Streams /\ opens = 1 /\ requests = ArgSet
       \/ sock \in FanStreams /\ opens = NumSources /\ requests = FanArgSet

\* ------------------------------------------------- GraphiteHandler.handle
\* Lines 1288-1290: the (name, name_ident) pairs run registers its queue under,
\* in order, for the result of reporting.get_plugin_and_rrd_types (1142-1147).
RECURSIVE Regs(_)
Regs(a) ==
    IF a = <<>> THEN <<>>
    ELSE LET g == Head(a)
             rrd_types == get_rrd_types(g.name, g.identifier)
         IN [i \in 1..Len(rrd_types) |->
                [name |-> plugin(g.name) \o "." \o rrd_types[i][1] \o "." \o rrd_types[i][2],
                 nameident |-> <<g.name, g.identifier>>]]
            \o Regs(Tail(a))

\* run has registered every key of its request and has not left its loop.
Subscribed(s) ==
    \/ spc[s] = "get"
    \/ spc[s] = "run" /\ sidx[s] > Len(Regs(arg[s]))

\* Lines 1176-1181: the lines of what was read and the new value of last.
SplitLines(lst, data) ==
    LET data1 == IF lst # <<>> THEN lst \o data ELSE data
        last1 == <<>>
        ls == Split(last1 \o data1, CRLF)
    IN [lines |-> SubSeq(ls, 1, Len(ls) - 1),
        last |-> IF ls[Len(ls)] # <<>> THEN ls[Len(ls)] ELSE last1]

\* Lines 1159-1184 with a batch of n bytes read before select() times out.
HandlerBatch(n) ==
    LET data == SubSeq(sock, 1, n)
        r == SplitLines(last, data)
    IN /\ sock' = SubSeq(sock, n + 1, Len(sock))
       /\ last' = r.last
       /\ lines' = r.lines
       /\ nameident_queues' = <<>>
       /\ nameident_timestamps' = {}
       /\ didx' = 1
       /\ hpc' = IF r.lines = <<>> THEN "deliver" ELSE "line"
       /\ received' = received \o data
       /\ batch' = r.lines
       /\ looked' = <<>> /\ snapshot' = <<>> /\ delivered' = <<>>
       /\ stable' = {s \in Sources : Subscribed(s)}
       /\ UNCHANGED <<hexc, iter, processed>>

\* Lines 1162-1163 and 1172-1173: the collector has closed the connection,
\* recv returns b'' and handle returns; the n bytes read since line 1159 are
\* dropped with it.
HandlerEof(n) ==
    /\ n = Len(sock)
    /\ sock' = <<>>
    /\ received' = received \o sock
    /\ hpc' = "returned"
    /\ UNCHANGED <<hexc, last, lines, nameident_queues,
                   nameident_timestamps, didx, iter>>
    /\ UNCHANGED <<processed, batch, looked, snapshot, delivered, stable>>

HandlerRecv ==
    /\ hpc = "recv"
    /\ \E n \in 0..Len(sock) :
          \/ n > 0 /\ HandlerBatch(n)
          \/ HandlerEof(n)
    /\ UNCHANGED <<svars, RRD_TYPE_QUEUES_EVENT, RRD_TYPE_QUEUES_EVENT_LOCK, opens, requests, qvars, ovars>>

\* Lines 1185-1189: the next line is parsed (an exception leaves handle) and
\* the lock is taken.
HandlerLine ==
    /\ hpc = "line"
    /\ LET r == ParseLine(Head(lines)) IN
          IF r.exc # ""
          THEN /\ hpc' = "raised" /\ hexc' = r.exc
               /\ UNCHANGED RRD_TYPE_QUEUES_EVENT_LOCK
          ELSE /\ RRD_TYPE_QUEUES_EVENT_LOCK = Free
               /\ RRD_TYPE_QUEUES_EVENT_LOCK' = Handler
               /\ hpc' = "locked" /\ UNCHANGED hexc
    /\ processed' = Append(processed, Head(lines))
    /\ UNCHANGED <<sock, last, lines, nameident_queues,
                   nameident_timestamps, didx, iter>>
    /\ UNCHANGED <<received, batch, looked, snapshot, delivered, stable>>
    /\ UNCHANGED <<svars, RRD_TYPE_QUEUES_EVENT, opens, requests, qvars, ovars>>

\* The lock after the with block of lines 1189-1194.
\* A handler that would leave the with block without releasing the lock.
LookupKeep == Handler

\* The lock's owner at the end of the with block of line 1189.
LookupRelease == Free

\* Lines 1190-1194 and the end of the with block.
HandlerLookup ==
    /\ hpc = "locked"
    /\ LET r == ParseLine(Head(lines))
           queues == ItemsOf(RRD_TYPE_QUEUES_EVENT, r.name)
       IN /\ nameident_queues' = DictUpdate(nameident_queues, queues)
          /\ nameident_timestamps' =
                nameident_timestamps \cup {<<queues[j].k, r.timestamp>> : j \in 1..Len(queues)}
          /\ looked' = Append(looked, {queues[j].k : j \in 1..Len(queues)})
          /\ snapshot' = DictUpdate(snapshot,
                [j \in 1..Len(queues) |->
                    [k |-> queues[j].k, v |-> RRD_TYPE_QUEUES_EVENT[queues[j].v].queues]])
    /\ RRD_TYPE_QUEUES_EVENT_LOCK' = LookupRelease
    /\ lines' = Tail(lines)
    /\ hpc' = IF Tail(lines) = <<>> THEN "deliver" ELSE "line"
    /\ UNCHANGED <<sock, hexc, last, didx, iter>>
    /\ UNCHANGED <<received, processed, batch, delivered, stable>>
    /\ UNCHANGED <<svars, RRD_TYPE_QUEUES_EVENT, opens, requests, qvars, ovars>>

\* Line 1195 and the iter() of line 1196: the next item of nameident_queues,
\* or back to line 1158 after the last.
HandlerItems ==
    /\ hpc = "deliver"
    /\ IF didx <= Len(nameident_queues)
       THEN LET q == RRD_TYPE_QUEUES_EVENT[nameident_queues[didx].v].queues IN
            /\ iter' = [size |-> Cardinality(q), init |-> q, visited |-> {}]
            /\ hpc' = "iter"
       ELSE /\ hpc' = "recv" /\ UNCHANGED iter
    /\ UNCHANGED <<sock, hexc, last, lines, nameident_queues,
                   nameident_timestamps, didx>>
    /\ UNCHANGED <<svars, gvars, RRD_TYPE_QUEUES_EVENT, RRD_TYPE_QUEUES_EVENT_LOCK, opens, requests, qvars, ovars>>

\* Lines 1196-1197, one next() of the iterator over the set in the map itself.
\* The set is not copied, so it is the set as the other threads have left it.
\* CPython's iterator raises RuntimeError when the size is not the one it
\* started with; at an equal size it yields every member it started with that
\* is still there, and a member added since is yielded or passed over.
HandlerPut ==
    /\ hpc = "iter"
    /\ LET nameident == nameident_queues[didx].k
           q == RRD_TYPE_QUEUES_EVENT[nameident_queues[didx].v].queues
           rest == q \ iter.visited
           item == [nameident |-> nameident,
                    timestamps |-> TimestampsGet(nameident_timestamps, nameident)]
       IN \/ /\ Cardinality(q) # iter.size
             /\ hpc' = "raised" /\ hexc' = "RuntimeError"
             /\ UNCHANGED <<queue, delivered, iter, didx>>
          \/ /\ Cardinality(q) = iter.size
             /\ \E t \in rest :
                   /\ queue' = [queue EXCEPT ![t] = Append(@, item)]
                   /\ delivered' = Append(delivered, [q |-> t] @@ item)
                   /\ iter' = [iter EXCEPT !.visited = @ \cup {t}]
             /\ UNCHANGED <<hpc, hexc, didx>>
          \/ /\ Cardinality(q) = iter.size
             /\ rest \cap iter.init = {}
             /\ hpc' = "deliver" /\ didx' = didx + 1
             /\ UNCHANGED <<queue, delivered, iter, hexc>>
    /\ UNCHANGED <<sock, last, lines, nameident_queues,
                   nameident_timestamps>>
    /\ UNCHANGED <<received, processed, batch, looked, snapshot, stable>>
    /\ UNCHANGED <<spc, arg, sidx, fidx, cancel, queue_reverse, sexc, query, events, failed>>
    /\ UNCHANGED <<RRD_TYPE_QUEUES_EVENT, RRD_TYPE_QUEUES_EVENT_LOCK, opens, requests, qvars, ovars>>

\* -------------------------------------------------- export window (run)
\* math.floor(x / 10) * 10 and math.ceil(x / 10) * 10 on an int x.
Floor10(x) == (x \div 10) * 10
Ceil10(x) == (0 - ((0 - x) \div 10)) * 10

Min(S) == CHOOSE x \in S : \A y \in S : x <= y
Max(S) == CHOOSE x \in S : \A y \in S : x >= y

\* Lines 1298-1300: an empty notification is given the current time.
TimestampsOrNow(timestamps, now) == IF timestamps = {} THEN {now} ELSE timestamps

\* Lines 1305-1308.
ExportEnd(timestamps) == Ceil10(Max(timestamps)) - 10

\* The start of the window without the step back of lines 1307-1308.
ExportStartNoShift(timestamps) == Floor10(Min(timestamps)) - 10

ExportStart(timestamps) ==
    LET start == Floor10(Min(timestamps)) - 10
        end == ExportEnd(timestamps)
    IN IF start = end THEN start - 10 ELSE start

\* int(time.time()) at line 1300.
Clock == {1012}

\* ------------------------------------------------- ReportingEventSource
\* The position of RRD_TYPE_QUEUES_EVENT[name][name_ident] in the map once the
\* two defaultdicts have created what is missing (line 1292).
EntryIndex(map, name, nameident) ==
    IF \E i \in 1..Len(map) : map[i].name = name /\ map[i].nameident = nameident
    THEN CHOOSE i \in 1..Len(map) : map[i].name = name /\ map[i].nameident = nameident
    ELSE Len(map) + 1

\* self.arg when it is not the text of a JSON value.
NotJson == <<[error |-> "JSONDecodeError"]>>

\* Lines 1276-1286 go through: json.loads(self.arg) succeeds and
\* get_plugin_and_rrd_types finds every name in self.__rrds (line 1145).
Resolves(a) == a # NotJson /\ \A k \in 1..Len(a) : a[k].name \in RRD_PLUGINS

\* An EventSource is created with its argument and EventSource.process starts
\* run; lines 1276-1286.  run returns at line 1282 when the argument is no
\* JSON, and the KeyError of line 1145 leaves it at line 1284; either way it
\* ends before the loop of line 1288.
Open(s, a) ==
    /\ opens > 0 /\ a \in requests
    /\ spc[s] = "idle" /\ \A t \in Sources : t < s => spc[t] # "idle"
    /\ opens' = opens - 1
    /\ spc' = [spc EXCEPT ![s] = IF Resolves(a) THEN "run" ELSE "finish"]
    /\ arg' = [arg EXCEPT ![s] = a]
    /\ UNCHANGED <<sidx, fidx, cancel, queue, queue_reverse, sexc, query, events, failed>>
    /\ UNCHANGED <<hvars, gvars, RRD_TYPE_QUEUES_EVENT, RRD_TYPE_QUEUES_EVENT_LOCK, requests, qvars, ovars>>

\* A loop that would register the queue under the first key only.
SubscribeFirst(s) ==
    /\ spc[s] = "run" /\ sidx[s] <= Len(Regs(arg[s]))
    /\ RRD_TYPE_QUEUES_EVENT_LOCK = Free
    /\ LET reg == Regs(arg[s])[sidx[s]]
           i == EntryIndex(RRD_TYPE_QUEUES_EVENT, reg.name, reg.nameident)
           map == IF i > Len(RRD_TYPE_QUEUES_EVENT)
                  THEN Append(RRD_TYPE_QUEUES_EVENT,
                              [name |-> reg.name, nameident |-> reg.nameident, queues |-> {}])
                  ELSE RRD_TYPE_QUEUES_EVENT
       IN /\ RRD_TYPE_QUEUES_EVENT' =
                [map EXCEPT ![i].queues = IF sidx[s] = 1 THEN @ \cup {s} ELSE @]
          /\ queue_reverse' = [queue_reverse EXCEPT ![s] = Append(@, i)]
    /\ sidx' = [sidx EXCEPT ![s] = @ + 1]
    /\ UNCHANGED <<spc, arg, fidx, cancel, queue, sexc, query, events, failed>>
    /\ UNCHANGED <<hvars, gvars, RRD_TYPE_QUEUES_EVENT_LOCK, opens, requests, qvars, ovars>>

\* Lines 1289-1294, one turn of the loop: the with block as one step.
Subscribe(s) ==
    /\ spc[s] = "run" /\ sidx[s] <= Len(Regs(arg[s]))
    /\ RRD_TYPE_QUEUES_EVENT_LOCK = Free
    /\ LET reg == Regs(arg[s])[sidx[s]]
           i == EntryIndex(RRD_TYPE_QUEUES_EVENT, reg.name, reg.nameident)
           map == IF i > Len(RRD_TYPE_QUEUES_EVENT)
                  THEN Append(RRD_TYPE_QUEUES_EVENT,
                              [name |-> reg.name, nameident |-> reg.nameident, queues |-> {}])
                  ELSE RRD_TYPE_QUEUES_EVENT
       IN /\ RRD_TYPE_QUEUES_EVENT' = [map EXCEPT ![i].queues = @ \cup {s}]
          /\ queue_reverse' = [queue_reverse EXCEPT ![s] = Append(@, i)]
    /\ sidx' = [sidx EXCEPT ![s] = @ + 1]
    /\ UNCHANGED <<spc, arg, fidx, cancel, queue, sexc, query, events, failed>>
    /\ UNCHANGED <<hvars, gvars, RRD_TYPE_QUEUES_EVENT_LOCK, opens, requests, qvars, ovars>>

\* Line 1296: the test of the while loop; when it fails run returns and
\* EventSource.process goes on to on_finish.
LoopTest(s) ==
    /\ spc[s] = "run" /\ sidx[s] > Len(Regs(arg[s]))
    /\ spc' = [spc EXCEPT ![s] = IF cancel[s] THEN "finish" ELSE "get"]
    /\ stable' = IF cancel[s] THEN stable \ {s} ELSE stable
    /\ UNCHANGED <<arg, sidx, fidx, cancel, queue, queue_reverse, sexc, query, events, failed>>
    /\ UNCHANGED <<received, processed, batch, looked, snapshot, delivered>>
    /\ UNCHANGED <<hvars, RRD_TYPE_QUEUES_EVENT, RRD_TYPE_QUEUES_EVENT_LOCK, opens, requests, qvars, ovars>>

\* A loop body without the try of line 1309: the exception of a failed query
\* leaves run().
GetRaise(s, ok, now) ==
    /\ spc[s] = "get" /\ queue[s] # <<>>
    /\ LET n == Head(queue[s])
           timestamps == TimestampsOrNow(n.timestamps, now)
       IN query' = [query EXCEPT ![s] =
                       [name |-> n.nameident[1], identifier |-> n.nameident[2],
                        start |-> ExportStart(timestamps), end |-> ExportEnd(timestamps),
                        aggregate |-> FALSE, timestamps |-> timestamps]]
    /\ queue' = [queue EXCEPT ![s] = Tail(@)]
    /\ events' = [events EXCEPT ![s] = IF ok THEN @ + 1 ELSE @]
    /\ failed' = [failed EXCEPT ![s] = IF ok THEN @ ELSE @ + 1]
    /\ spc' = [spc EXCEPT ![s] = IF ok THEN "run" ELSE "finish"]
    /\ UNCHANGED <<arg, sidx, fidx, cancel, queue_reverse, sexc>>
    /\ UNCHANGED <<hvars, gvars, RRD_TYPE_QUEUES_EVENT, RRD_TYPE_QUEUES_EVENT_LOCK, opens, requests, qvars, ovars>>

\* Lines 1297-1322: queue.get() returns a notification, the window is
\* computed and reporting.get_data is called; ok is whether the call and
\* send_event went through (an exception is logged and the loop goes on).
\* query records the call, and with it the timestamps it was computed from.
Get(s, ok, now) ==
    /\ spc[s] = "get" /\ queue[s] # <<>>
    /\ LET n == Head(queue[s])
           timestamps == TimestampsOrNow(n.timestamps, now)
       IN query' = [query EXCEPT ![s] =
                       [name |-> n.nameident[1], identifier |-> n.nameident[2],
                        start |-> ExportStart(timestamps), end |-> ExportEnd(timestamps),
                        aggregate |-> FALSE, timestamps |-> timestamps]]
    /\ queue' = [queue EXCEPT ![s] = Tail(@)]
    /\ events' = [events EXCEPT ![s] = IF ok THEN @ + 1 ELSE @]
    /\ failed' = [failed EXCEPT ![s] = IF ok THEN @ ELSE @ + 1]
    /\ spc' = [spc EXCEPT ![s] = "run"]
    /\ UNCHANGED <<arg, sidx, fidx, cancel, queue_reverse, sexc>>
    /\ UNCHANGED <<hvars, gvars, RRD_TYPE_QUEUES_EVENT, RRD_TYPE_QUEUES_EVENT_LOCK, opens, requests, qvars, ovars>>

\* EventSource.cancel(): the subscriber went away.  _cancel is read at line
\* 1296 only, so a cancel() during the subscription loop is the same as one
\* right after it.
Cancel(s) ==
    /\ Subscribed(s) /\ ~cancel[s]
    /\ cancel' = [cancel EXCEPT ![s] = TRUE]
    /\ UNCHANGED <<spc, arg, sidx, fidx, queue, queue_reverse, sexc, query, events, failed>>
    /\ UNCHANGED <<hvars, gvars, RRD_TYPE_QUEUES_EVENT, RRD_TYPE_QUEUES_EVENT_LOCK, opens, requests, qvars, ovars>>

\* Lines 1328-1329, one turn of the loop: set.remove raises KeyError when the
\* queue is not in the set, which ends on_finish.
OnFinish(s) ==
    /\ spc[s] = "finish"
    /\ IF fidx[s] > Len(queue_reverse[s])
       THEN /\ spc' = [spc EXCEPT ![s] = "finished"]
            /\ UNCHANGED <<RRD_TYPE_QUEUES_EVENT, fidx, sexc>>
       ELSE LET i == queue_reverse[s][fidx[s]] IN
            IF s \in RRD_TYPE_QUEUES_EVENT[i].queues
            THEN /\ RRD_TYPE_QUEUES_EVENT' =
                       [RRD_TYPE_QUEUES_EVENT EXCEPT ![i].queues = @ \ {s}]
                 /\ fidx' = [fidx EXCEPT ![s] = @ + 1]
                 /\ UNCHANGED <<spc, sexc>>
            ELSE /\ spc' = [spc EXCEPT ![s] = "finished"]
                 /\ sexc' = [sexc EXCEPT ![s] = "KeyError"]
                 /\ UNCHANGED <<RRD_TYPE_QUEUES_EVENT, fidx>>
    /\ UNCHANGED <<arg, sidx, cancel, queue, queue_reverse, query, events, failed>>
    /\ UNCHANGED <<hvars, gvars, RRD_TYPE_QUEUES_EVENT_LOCK, opens, requests, qvars, ovars>>

\* ------------------------------------------------------------------- Next
Next ==
    \/ HandlerRecv
    \/ HandlerLine
    \/ HandlerLookup
    \/ HandlerItems
    \/ HandlerPut
    \/ \E s \in Sources, a \in ArgSet \cup FanArgSet : Open(s, a)
    \/ \E s \in Sources : Subscribe(s)
    \/ \E s \in Sources : LoopTest(s)
    \/ \E s \in Sources, ok \in BOOLEAN, now \in Clock : Get(s, ok, now)
    \/ \E s \in Sources : Cancel(s)
    \/ \E s \in Sources : OnFinish(s)

Spec == Init /\ [][Next]_vars

\* Scheduling: the handler's thread and every EventSource's thread keep
\* running.  Nothing makes a client open or cancel an EventSource.
Fairness ==
    /\ WF_vars(HandlerRecv \/ HandlerLine \/ HandlerLookup \/ HandlerItems \/ HandlerPut)
    /\ \A s \in Sources :
          WF_vars(Subscribe(s) \/ LoopTest(s) \/ OnFinish(s)
                  \/ \E ok \in BOOLEAN, now \in Clock : Get(s, ok, now))

\* One connection with a single sample and one EventSource on its graph.
FairInit ==
    /\ Idle /\ QueryIdle /\ ExportIdle /\ OtherIdle
    /\ sock \in FanStreams /\ opens = 1 /\ requests = {<<Graph("swap", None)>>}

FairSpec == FairInit /\ [][Next]_vars /\ Fairness

\* ---------------------------------------------------- the window scenario
\* The sets of timestamps a notification may carry: the least and the
\* greatest decide the window.
TsSets == {{a, b} : a, b \in (0 - MaxTs)..MaxTs}

\* An EventSource on the swap graph is blocked in queue.get() and the handler
\* has put one notification on its queue.
WindowInit ==
    LET a == <<Graph("swap", None)>>
        regs == Regs(a)
    IN /\ sock = <<>> /\ hpc = "recv" /\ hexc = "" /\ last = <<>> /\ lines = <<>>
       /\ nameident_queues = <<>> /\ nameident_timestamps = {}
       /\ didx = 1 /\ iter = NoIter
       /\ RRD_TYPE_QUEUES_EVENT =
             [i \in 1..Len(regs) |->
                 [name |-> regs[i].name, nameident |-> regs[i].nameident, queues |-> {1}]]
       /\ RRD_TYPE_QUEUES_EVENT_LOCK = Free
       /\ spc = [s \in Sources |-> IF s = 1 THEN "get" ELSE "idle"]
       /\ arg = [s \in Sources |-> IF s = 1 THEN a ELSE <<>>]
       /\ sidx = [s \in Sources |-> IF s = 1 THEN Len(regs) + 1 ELSE 1]
       /\ fidx = [s \in Sources |-> 1]
       /\ cancel = [s \in Sources |-> FALSE]
       /\ \E T \in TsSets :
             queue = [s \in Sources |->
                         IF s = 1 THEN <<[nameident |-> <<"swap", None>>, timestamps |-> T]>>
                         ELSE <<>>]
       /\ queue_reverse = [s \in Sources |-> IF s = 1 THEN [i \in 1..Len(regs) |-> i] ELSE <<>>]
       /\ sexc = [s \in Sources |-> ""]
       /\ query = [s \in Sources |-> NoQuery]
       /\ events = [s \in Sources |-> 0]
       /\ failed = [s \in Sources |-> 0]
       /\ received = <<>> /\ processed = <<>> /\ batch = <<>> /\ looked = <<>>
       /\ snapshot = <<>> /\ delivered = <<>> /\ stable = {1}
       /\ opens = 0 /\ requests = {a}
       /\ QueryIdle /\ ExportIdle /\ OtherIdle

WindowNext == \E ok \in BOOLEAN, now \in Clock : Get(1, ok, now)

WindowSpec == WindowInit /\ [][WindowNext]_vars

\* ------------------------------------------------ the get_data scenario
\* Line 1116 on entry to get_data: the schema's defaults, then the window;
\* a ValidationErrors of __rquery_to_start_end ends the call.
GetDataCall(g, q) ==
    /\ gpc = "idle"
    /\ graphs' = g /\ supplied' = q.keys /\ rquery' = accepts(q)
    /\ LET w == rquery_to_start_end(accepts(q)) IN
       IF w.exc # ""
       THEN /\ gpc' = "raised"
            /\ gexc' = [type |-> w.exc, errno |-> "", msg |-> ""]
            /\ UNCHANGED window
       ELSE /\ gpc' = "loop"
            /\ window' = [starttime |-> w.starttime, endtime |-> w.endtime]
            /\ UNCHANGED gexc
    /\ UNCHANGED <<gidx, rv, calls, self, xpc, xout>>
    /\ UNCHANGED <<hvars, svars, gvars, RRD_TYPE_QUEUES_EVENT, RRD_TYPE_QUEUES_EVENT_LOCK,
                   opens, requests, ovars>>

\* The archive files of the graphs that are in the registry.
KnownPaths ==
    UNION {RrdPaths(Rrd(g.name, g.identifier), g.identifier) :
              g \in {x \in GraphKinds : x.name \in RRD_PLUGINS}}

\* The KeyError of line 1120 as it would leave get_data uncaught.
NotFoundKeyError(name) == [type |-> "KeyError", errno |-> "", msg |-> "'" \o name \o "'"]

\* Lines 1121-1122: the CallError raised for a name that is no key of __rrds.
NotFound(name) ==
    [type |-> "CallError", errno |-> "ENOENT", msg |-> "Graph '" \o name \o "' not found."]

\* Lines 1118-1125, one turn of the loop: the graph's plugin is looked up
\* (CallError ENOENT when there is none) and its export appended to rv; an
\* exception of export ends the call.
GetDataExport(missing, fail) ==
    /\ gpc = "loop" /\ gidx <= Len(graphs)
    /\ LET i == graphs[gidx] IN
       IF i.name \notin RRD_PLUGINS
       THEN /\ missing = {} /\ ~fail
            /\ gpc' = "raised"
            /\ gexc' = NotFound(i.name)
            /\ UNCHANGED <<gidx, rv, calls>>
       ELSE LET rrd == Rrd(i.name, i.identifier)
                r == export(rrd, i.identifier, window.starttime, window.endtime,
                            rquery.aggregate,
                            [missing |-> missing, fail |-> fail,
                             archive |-> archive, now |-> tnow])
            IN /\ missing \subseteq RrdPaths(rrd, i.identifier)
               /\ calls' = calls \o r.runs
               /\ IF r.exc # ""
                  THEN /\ gpc' = "raised"
                       /\ gexc' = [type |-> r.exc, errno |-> "", msg |-> r.msg]
                       /\ UNCHANGED <<gidx, rv>>
                  ELSE /\ rv' = rv \o r.data
                       /\ gidx' = gidx + 1
                       /\ UNCHANGED <<gpc, gexc>>
    /\ UNCHANGED <<graphs, rquery, supplied, window, self, xpc, xout>>
    /\ UNCHANGED <<hvars, svars, gvars, RRD_TYPE_QUEUES_EVENT, RRD_TYPE_QUEUES_EVENT_LOCK,
                   opens, requests, ovars>>

\* Line 1126.
GetDataReturn ==
    /\ gpc = "loop" /\ gidx > Len(graphs)
    /\ gpc' = "returned"
    /\ UNCHANGED <<graphs, rquery, supplied, window, gidx, rv, gexc, calls, self, xpc, xout>>
    /\ UNCHANGED <<hvars, svars, gvars, RRD_TYPE_QUEUES_EVENT, RRD_TYPE_QUEUES_EVENT_LOCK,
                   opens, requests, ovars>>

\* One call of reporting.get_data, with no collector connection and no
\* EventSource.
QueryInit ==
    /\ Idle /\ QueryIdle /\ ExportIdle /\ OtherIdle
    /\ sock = <<>> /\ opens = 0 /\ requests = {}

QueryNext ==
    \/ \E g \in GraphLists(MaxGraphs) \ {<<>>}, q \in ClientQueries : GetDataCall(g, q)
    \/ \E missing \in SUBSET KnownPaths, fail \in BOOLEAN : GetDataExport(missing, fail)
    \/ GetDataReturn

QuerySpec == QueryInit /\ [][QueryNext]_vars

\* -------------------------------------------------- the export scenario
\* Transforms a plugin class may give an rrd type: none, one on the series'
\* own name, and one on another series by its number.
Transforms ==
    {None, <<"%name%", ",8,*">>}
    \cup {<<"%name%", ",", RefToken(number), ",+">> : number \in 0..MaxRef}

\* rrd_types of up to n types t0, t1, ... with any of the transforms.
TypeLists(n) ==
    UNION {{[i \in 1..k |-> <<"t" \o ToString(i - 1), "value", f[i]>>] :
               f \in [1..k -> Transforms]} : k \in 0..n}

\* Plugin classes as a subclass of RRDBase may declare them.
PluginClasses ==
    {[name |-> "x", plugin |-> "x", identifier_plugin |-> ip,
      rrd_types |-> t, rrd_data_extra |-> e, aggregations |-> a] :
        ip \in BOOLEAN, t \in TypeLists(MaxTypes), e \in {None, ExtraBoth},
        a \in {aggregations, <<"min", "sum">>, <<>>}}

\* export is called once on the plugin object self.
Export(identifier, aggregate, missing, fail) ==
    /\ xpc = "call"
    /\ missing \subseteq RrdPaths(self, identifier)
    /\ LET r == export(self, identifier, "1000", "2000", aggregate,
                       [missing |-> missing, fail |-> fail,
                        archive |-> archive, now |-> tnow])
       IN /\ xout' = [identifier |-> identifier, aggregate |-> aggregate,
                      missing |-> missing, fail |-> fail,
                      exc |-> r.exc, msg |-> r.msg, data |-> r.data]
          /\ calls' = calls \o r.runs
    /\ xpc' = "done"
    /\ UNCHANGED <<gpc, graphs, rquery, supplied, window, gidx, rv, gexc, self>>
    /\ UNCHANGED <<hvars, svars, gvars, RRD_TYPE_QUEUES_EVENT, RRD_TYPE_QUEUES_EVENT_LOCK,
                   opens, requests, ovars>>

PluginInit ==
    /\ Idle /\ QueryIdle /\ OtherIdle
    /\ sock = <<>> /\ opens = 0 /\ requests = {}
    /\ self \in PluginClasses /\ xpc = "call" /\ xout = NoResult

PluginNext ==
    \E identifier \in {None, <<"ada0">>}, aggregate \in BOOLEAN, fail \in BOOLEAN :
        \E missing \in SUBSET RrdPaths(self, identifier) :
            Export(identifier, aggregate, missing, fail)

PluginSpec == PluginInit /\ [][PluginNext]_vars

\* ------------------------------------------- the get_identifiers scenario
\* The idents a scan may yield for a plugin: disks da1, da2, da10 and pass0;
\* ports ha, a:p2, a:p10 and ioctl; mount points /, /mnt/a2, /mnt/a10, /tmp.
Idents(name) ==
    CASE name = "df" ->
            {<<"/">>, <<"/", "m", "n", "t", "/", "a", "2">>,
             <<"/", "m", "n", "t", "/", "a", "1", "0">>, <<"/", "t", "m", "p">>}
      [] name = "ctl" ->
            {<<"h", "a">>, <<"a", ":", "p", "2">>, <<"a", ":", "p", "1", "0">>,
             <<"i", "o", "c", "t", "l">>}
      [] OTHER ->
            {<<"d", "a", "1">>, <<"d", "a", "2">>, <<"d", "a", "1", "0">>,
             <<"p", "a", "s", "s", "0">>}

\* The scans of up to n distinct items, in any order (glob yields the entries
\* of a directory in no order of its own).
RECURSIVE Scans(_, _)
Scans(name, n) ==
    IF n = 0 THEN {<<>>}
    ELSE Scans(name, n - 1)
         \cup {Append(l, [ident |-> i, exists |-> e]) :
                  l \in {x \in Scans(name, n - 1) : Len(x) = n - 1},
                  i \in Idents(name), e \in BOOLEAN}

Distinct(l) == \A i, j \in 1..Len(l) : l[i].ident = l[j].ident => i = j

GetIdentifiers ==
    /\ ipc = "call"
    /\ ids' = get_identifiers(iname, scan)
    /\ ipc' = "done"
    /\ UNCHANGED <<iname, scan, mvars, uvars, tvars, archive>>
    /\ UNCHANGED <<hvars, svars, gvars, RRD_TYPE_QUEUES_EVENT, RRD_TYPE_QUEUES_EVENT_LOCK,
                   opens, requests, qvars>>

Quiet ==
    /\ Idle /\ QueryIdle /\ ExportIdle
    /\ sock = <<>> /\ opens = 0 /\ requests = {}

IdentInit ==
    /\ Quiet /\ MetaIdle /\ UpdateIdle /\ TileIdle /\ archive = {}
    /\ iname \in ScanPlugins
    /\ scan \in {l \in Scans(iname, MaxScan) : Distinct(l)}
    /\ ids = <<>> /\ ipc = "call"

IdentNext == GetIdentifiers

IdentSpec == IdentInit /\ [][IdentNext]_vars

\* ------------------------------------------ the class definition scenario
\* The attributes the body of a class statement may set.
ClassBodies == [plugin : {NoAttr, "swap"}, name : {NoAttr, "swap", "disk"}]

\* A class statement with metaclass RRDMeta is executed (lines 71-86).
ClassDef(cname, suffix, base, dct) ==
    /\ Len(classes) < MaxClasses
    /\ base \in 0..Len(classes)
    /\ LET r == RRDMetaNew(cname, suffix, base, dct) IN
       /\ mexc' = r.exc
       /\ IF r.exc # ""
          THEN UNCHANGED <<rrd_plugins, classes>>
          ELSE /\ classes' = Append(classes, r.klass)
               /\ rrd_plugins' =
                     [n \in DOMAIN rrd_plugins \cup {r.klass.name} |->
                         IF n = r.klass.name THEN Len(classes) + 1 ELSE rrd_plugins[n]]
    /\ UNCHANGED <<hvars, svars, gvars, RRD_TYPE_QUEUES_EVENT, RRD_TYPE_QUEUES_EVENT_LOCK,
                   opens, requests, qvars, ivars, uvars, tvars, archive>>

MetaInit == Quiet /\ IdentIdle /\ MetaIdle /\ UpdateIdle /\ TileIdle /\ archive = {}

MetaNext ==
    \E cname \in {"Swap", "SWAP", "Disk"}, suffix \in BOOLEAN,
       base \in 0..MaxClasses, dct \in ClassBodies :
        ClassDef(cname, suffix, base, dct)

MetaSpec == MetaInit /\ [][MetaNext]_vars

\* ------------------------------------------------- the do_update scenario
\* The dicts a caller may give reporting.update.
UpdateDataSet ==
    {UpdateData(keys, usedataset, size, timespans, rows, confirm) :
        keys \in SUBSET (ConfigKeys \cup {"confirm_rrd_destroy"}),
        usedataset \in BOOLEAN, size \in {1, 2},
        timespans \in {<<3600>>, <<3600, 86400>>}, rows \in {1, 2},
        confirm \in BOOLEAN}

NotUpdating == <<hvars, svars, gvars, RRD_TYPE_QUEUES_EVENT, RRD_TYPE_QUEUES_EVENT_LOCK,
                 opens, requests, qvars, ivars, mvars, tvars, archive>>

\* Lines 764-810: the configuration is read and merged, the ramdisk size and
\* the confirmation are validated, and the new configuration is stored.
\* data_dir_is_ramdisk and used are what psutil reports.
DoUpdate(d, data_dir_is_ramdisk, used) ==
    /\ upc = "idle"
    /\ LET confirm_rrd_destroy == "confirm_rrd_destroy" \in d.keys /\ d.confirm_rrd_destroy
           old == config
           new == Updated(old, d)
           update_ramdisk == old.rrd_ramdisk_size # new.rrd_ramdisk_size /\ data_dir_is_ramdisk
           destroy_database == \E k \in {"graph_timespans", "graph_rows"} : old[k] # new[k]
           verrors == (IF update_ramdisk /\ new.rrd_ramdisk_size < used
                       THEN {"rrd_ramdisk_size"} ELSE {})
                      \cup Unconfirmed(old, new, confirm_rrd_destroy)
       IN /\ udata' = d
          /\ frame' = [old |-> old, new |-> new, update_ramdisk |-> update_ramdisk,
                       destroy_database |-> destroy_database,
                       before |-> [collectd |-> collectd, persist_file |-> persist_file,
                                   database |-> database]]
          /\ IF verrors # {}
             THEN /\ upc' = "raised" /\ uexc' = "ValidationErrors"
                  /\ UNCHANGED config
             ELSE /\ upc' = "stored" /\ config' = new
                  /\ UNCHANGED uexc
    /\ UNCHANGED <<collectd, persist_file, database, services>>
    /\ UNCHANGED NotUpdating

\* Lines 812-814: collectd is stopped and the archives are copied when
\* rrd_usedataset changed.
UpdateToggle ==
    /\ upc = "stored"
    /\ IF frame.old.rrd_usedataset # frame.new.rrd_usedataset
       THEN collectd' = "stopped" /\ services' = Append(services, "stop")
       ELSE UNCHANGED <<collectd, services>>
    /\ upc' = "toggled"
    /\ UNCHANGED <<config, persist_file, database, udata, frame, uexc>>
    /\ UNCHANGED NotUpdating

\* Lines 816-819: collectd is stopped, the ramdisk persisted and unmounted.
\* persist_ramdisk writes PERSIST_FILE unless the dataset is in use or /data
\* is short of space (persisted).
UpdateRamdisk(persisted) ==
    /\ upc = "toggled"
    /\ IF frame.update_ramdisk
       THEN /\ collectd' = "stopped" /\ services' = Append(services, "stop")
            /\ persist_file' = (persist_file \/ persisted)
       ELSE UNCHANGED <<collectd, services, persist_file>>
    /\ upc' = "ramdisk"
    /\ UNCHANGED <<config, database, udata, frame, uexc>>
    /\ UNCHANGED NotUpdating

\* Lines 821-824: collectd is stopped, PERSIST_FILE unlinked and the archive
\* files removed; os.unlink raises FileNotFoundError without the file.
UpdateDestroy ==
    /\ upc = "ramdisk"
    /\ IF frame.destroy_database
       THEN /\ collectd' = "stopped" /\ services' = Append(services, "stop")
            /\ IF persist_file
               THEN /\ persist_file' = FALSE /\ database' = FALSE
                    /\ upc' = "destroyed" /\ UNCHANGED uexc
               ELSE /\ upc' = "raised" /\ uexc' = "FileNotFoundError"
                    /\ UNCHANGED <<persist_file, database>>
       ELSE /\ upc' = "destroyed"
            /\ UNCHANGED <<collectd, services, persist_file, database, uexc>>
    /\ UNCHANGED <<config, udata, frame>>
    /\ UNCHANGED NotUpdating

\* Lines 826-828: collectd is restarted and the configuration returned.
UpdateRestart ==
    /\ upc = "destroyed"
    /\ collectd' = "running" /\ services' = Append(services, "restart")
    /\ upc' = "returned"
    /\ UNCHANGED <<config, persist_file, database, udata, frame, uexc>>
    /\ UNCHANGED NotUpdating

UpdateInit ==
    /\ Quiet /\ IdentIdle /\ MetaIdle /\ TileIdle /\ archive = {}
    /\ config \in {[DefaultConfig EXCEPT !.rrd_usedataset = u] : u \in BOOLEAN}
    /\ collectd \in {"running", "stopped"}
    /\ persist_file \in BOOLEAN /\ database = TRUE
    /\ upc = "idle" /\ udata = NoData /\ frame = NoFrame /\ uexc = "" /\ services = <<>>

UpdateNext ==
    \/ \E d \in UpdateDataSet, data_dir_is_ramdisk \in BOOLEAN, used \in {1, 2} :
          DoUpdate(d, data_dir_is_ramdisk, used)
    \/ UpdateToggle
    \/ \E persisted \in BOOLEAN : UpdateRamdisk(persisted)
    \/ UpdateDestroy
    \/ UpdateRestart

UpdateSpec == UpdateInit /\ [][UpdateNext]_vars

\* --------------------------------------------------- the paging scenario
\* The times of day at which a page is asked for.
Nows == {1600000000 + 7200 * k : k \in 0..4}

\* get_data with {unit: tunit, page: page}: the window of
\* __rquery_to_start_end as rrdtool resolves it at tnow.
Page(page) ==
    /\ page \notin DOMAIN tiles
    /\ LET w == rquery_to_start_end(accepts(ClientQuery({"unit", "page"}, tunit, page, TRUE)))
       IN tiles' = [q \in DOMAIN tiles \cup {page} |->
                       IF q = page THEN AtResolve(w.starttime, w.endtime, tnow)
                       ELSE tiles[q]]
    /\ UNCHANGED <<tunit, tnow>>
    /\ UNCHANGED <<hvars, svars, gvars, RRD_TYPE_QUEUES_EVENT, RRD_TYPE_QUEUES_EVENT_LOCK,
                   opens, requests, qvars, ivars, mvars, uvars, archive>>

TileInit ==
    /\ Quiet /\ IdentIdle /\ MetaIdle /\ UpdateIdle /\ archive = {}
    /\ tunit \in {"HOUR", "DAY", "WEEK"} /\ tnow \in Nows /\ tiles = <<>>

TileNext == \E page \in 0..(MaxPage + 1) : Page(page)

TileSpec == TileInit /\ [][TileNext]_vars

\* ---------------------------------------------- the subscription scenario
\* Requests of one and two graphs, with and without a name that is no key
\* of RRD_PLUGINS, and a request that is no JSON.
SubArgSet ==
    { <<Graph("swap", None)>>,
      <<Graph("disk", <<"ada0">>), Graph("swap", None)>>,
      <<Graph("swap", None), Graph("nosuch", None)>>,
      <<Graph("nosuch", None)>>,
      NotJson }

SubInit ==
    /\ Idle /\ QueryIdle /\ ExportIdle /\ OtherIdle
    /\ sock = <<>> /\ opens = NumSources /\ requests = SubArgSet

SubNext ==
    \/ \E s \in Sources, a \in SubArgSet : Open(s, a)
    \/ \E s \in Sources : Subscribe(s)
    \/ \E s \in Sources : LoopTest(s)
    \/ \E s \in Sources : Cancel(s)
    \/ \E s \in Sources : OnFinish(s)

SubSpec == SubInit /\ [][SubNext]_vars

\* ----------------------------------------------- the round trip scenario
\* The samples the collector may send, each with the graph it belongs to.
RoundTripSamples ==
    { [graph |-> Graph("swap", None), type |-> "swap-used", dsname |-> "value",
       path |-> "swap.swap-used.value", value |-> "42", timestamp |-> "1000"],
      [graph |-> Graph("disk", <<"ada0">>), type |-> "disk_octets", dsname |-> "read",
       path |-> "disk-ada0.disk_octets.read", value |-> "7", timestamp |-> "1012"] }

\* The line of a sample, and its row in the archive file of its rrd type.
LineOf(sample) == Sample(sample.path, sample.value, sample.timestamp)

RowOf(sample) ==
    [path |-> RrdPath(Rrd(sample.graph.name, sample.graph.identifier),
                      sample.graph.identifier, sample.type),
     dsname |-> sample.dsname,
     timestamp |-> Numerals[sample.timestamp], value |-> sample.value]

\* The lines the collector has put on the connection.
Sent == Split(received \o sock, CRLF)

\* The collector's own rrdtool plugin writes the sample it also sent to the
\* handler into the archive file, at a time of its own (the data of a step
\* is there once the step is full, lines 1300-1302).
CollectdWrite ==
    /\ \E sample \in RoundTripSamples :
          /\ \E k \in 1..Len(Sent) : Sent[k] = LineOf(sample)
          /\ RowOf(sample) \notin archive
          /\ archive' = archive \cup {RowOf(sample)}
    /\ UNCHANGED <<hvars, svars, gvars, RRD_TYPE_QUEUES_EVENT, RRD_TYPE_QUEUES_EVENT_LOCK,
                   opens, requests, qvars, ivars, mvars, uvars, tvars>>

\* The queries of a window that holds the timestamps of the samples: from
\* 1000 to 2000, and the last hour at the time 2000.
RoundTripQueries ==
    { ClientQuery({"start", "end"}, "", 0, TRUE),
      ClientQuery({"unit"}, "HOUR", 0, TRUE) }

RoundTripInit ==
    /\ Idle /\ QueryIdle /\ ExportIdle
    /\ \E sample \in RoundTripSamples : sock = LineOf(sample) \o CRLF
    /\ opens = 0 /\ requests = {}
    /\ IdentIdle /\ MetaIdle /\ UpdateIdle
    /\ tunit = "HOUR" /\ tnow = 2000 /\ tiles = <<>>
    /\ archive = {}

\* A caller queries the graph of a sample the handler has taken in.
RoundTripCall(sample, q) ==
    /\ hpc = "recv" /\ LineOf(sample) \in {processed[k] : k \in 1..Len(processed)}
    /\ GetDataCall(<<sample.graph>>, q)

RoundTripNext ==
    \/ HandlerRecv
    \/ HandlerLine
    \/ HandlerLookup
    \/ HandlerItems
    \/ CollectdWrite
    \/ \E sample \in RoundTripSamples, q \in RoundTripQueries : RoundTripCall(sample, q)
    \/ \E missing \in SUBSET KnownPaths, fail \in BOOLEAN : GetDataExport(missing, fail)
    \/ GetDataReturn

RoundTripSpec == RoundTripInit /\ [][RoundTripNext]_vars

\* ------------------------------------------------------------- properties
\* The handler is not inside a batch: the history of the last batch is whole.
BatchOver == hpc \in {"recv", "returned", "raised"}

\* The positions of the map entries of the keys s was opened with.
KeysOf(s) ==
    {i \in 1..Len(RRD_TYPE_QUEUES_EVENT) :
        \E j \in 1..Len(Regs(arg[s])) :
            /\ Regs(arg[s])[j].name = RRD_TYPE_QUEUES_EVENT[i].name
            /\ Regs(arg[s])[j].nameident = RRD_TYPE_QUEUES_EVENT[i].nameident}

Unsubscribed(s) == \A i \in KeysOf(s) : s \notin RRD_TYPE_QUEUES_EVENT[i].queues

\* The puts of the last batch to queue s for key nameident.
PutsTo(s, nameident) ==
    {j \in 1..Len(delivered) : delivered[j].q = s /\ delivered[j].nameident = nameident}

\* The timestamps of the samples of the last batch under one of the names.
SampleTimestamps(names) ==
    {ParseLine(batch[i]).timestamp :
        i \in {j \in 1..Len(batch) :
                 ParseLine(batch[j]).exc = "" /\ ParseLine(batch[j]).name \in names}}

\* The names s registered its queue under for the key nameident.
NamesOf(s, nameident) ==
    {Regs(arg[s])[j].name :
        j \in {i \in 1..Len(Regs(arg[s])) : Regs(arg[s])[i].nameident = nameident}}

NameIdentsOf(s) == {Regs(arg[s])[j].nameident : j \in 1..Len(Regs(arg[s]))}

\* C1: once a cancelled EventSource has run on_finish, no set of the map
\* under one of its keys holds its queue.
C1_CancellationSafety ==
    \A s \in Sources : cancel[s] /\ spc[s] = "finished" => Unsubscribed(s)

\* C2: once the cancellation signal is set, run ends and the queue is removed
\* from every set, whether or not another notification is published.
C2_CancellationLiveness ==
    \A s \in Sources : cancel[s] ~> (spc[s] = "finished" /\ Unsubscribed(s))

\* C3: every EventSource subscribed to a key throughout a batch that holds a
\* sample of the key is given exactly one notification for the key.
C3_FanOut ==
    BatchOver =>
        \A s \in stable : \A nameident \in NameIdentsOf(s) :
            SampleTimestamps(NamesOf(s, nameident)) # {}
                => Cardinality(PutsTo(s, nameident)) = 1

\* The path the collector gives a sample of an instance of an identifier plugin
\* (after the host): <plugin>-<identifier>.<archiveType>.<field>.
InstancePath(g, rrd_type) ==
    plugin(g.name) \o "-" \o IdentStr(g.identifier) \o "." \o rrd_type[1] \o "." \o rrd_type[2]

InstancePaths(g) ==
    {InstancePath(g, get_rrd_types(g.name, g.identifier)[i]) :
        i \in 1..Len(get_rrd_types(g.name, g.identifier))}

GraphsOf(s) == {arg[s][j] : j \in 1..Len(arg[s])}

\* C4: a sample <host>.<plugin>-<identifier>.<archiveType>.<field> gives a
\* notification to every EventSource subscribed to that identifier of the
\* graph, and none to one subscribed only to another identifier of it.
C4_IdentifierRouting ==
    BatchOver =>
        \A s \in stable : \A g \in GraphsOf(s) :
            g.identifier # None =>
                /\ SampleTimestamps(InstancePaths(g)) # {}
                      => PutsTo(s, <<g.name, g.identifier>>) # {}
                /\ \A other \in {<<"ada0">>, <<"ada1">>} \ {g.identifier} :
                      /\ Graph(g.name, other) \notin GraphsOf(s)
                      /\ SampleTimestamps(InstancePaths(Graph(g.name, other))) # {}
                      /\ SampleTimestamps(InstancePaths(g)) = {}
                      => PutsTo(s, <<g.name, g.identifier>>) = {}

\* The complete lines of a byte stream, and what follows the last delimiter.
CompleteLines(bytes) == SubSeq(Split(bytes, CRLF), 1, Len(Split(bytes, CRLF)) - 1)
Trailing(bytes) == Split(bytes, CRLF)[Len(Split(bytes, CRLF))]

\* C5: whatever the reads, the lines the handler has run its loop on are the
\* complete lines of the bytes it received, each once and in order, and the
\* incomplete line that follows them is kept for the next read.
C5_PartialReadResilience ==
    /\ hpc \in {"recv", "returned"} => processed = CompleteLines(received)
    /\ hpc = "recv" => last = Trailing(received)

\* C6: a malformed line does not end the handler.
C6_MalformedLineDropped ==
    ~(hpc = "raised" /\ hexc \in {"ValueError", "IndexError"})

\* The queues the last batch's puts for the j-th key of nameident_queues went to.
Recipients(j) ==
    {delivered[i].q :
        i \in {n \in 1..Len(delivered) : delivered[n].nameident = nameident_queues[j].k}}

\* C7: the queues a key's notification is put on are the ones that were in
\* the key's set when the handler looked it up, and the handler does not fail
\* on a subscribe or unsubscribe in between.
C7_PublishSnapshot ==
    /\ hexc # "RuntimeError"
    /\ \A j \in 1..Len(nameident_queues) :
          (j < didx /\ hpc \in {"deliver", "iter", "recv", "returned"})
              => Recipients(j) = snapshot[j].v

\* C8: the handler does not hold the lock while it puts notifications on the
\* queues; it holds it inside the lookup of lines 1190-1194 only.
C8_LockNotHeldWhileDelivering ==
    /\ hpc \in {"deliver", "iter"} => RRD_TYPE_QUEUES_EVENT_LOCK # Handler
    /\ RRD_TYPE_QUEUES_EVENT_LOCK = Handler => hpc = "locked"

\* The handler has put a notification on a queue and is inside the loop of
\* line 1196.
C8_Witness == hpc = "iter" /\ iter.visited # {} /\ RRD_TYPE_QUEUES_EVENT_LOCK = Free

\* C9: for every key with a sample in the batch there is one publish, and its
\* notification carries the timestamps of the batch's samples of that key,
\* all of them and no other.
C9_Batching ==
    BatchOver =>
        \A s \in stable : \A nameident \in NameIdentsOf(s) :
            LET timestamps == SampleTimestamps(NamesOf(s, nameident)) IN
            timestamps # {} =>
                \E j \in PutsTo(s, nameident) :
                    /\ PutsTo(s, nameident) = {j}
                    /\ delivered[j].timestamps = timestamps

\* The multiple of 10 at or below x, and the one at or above it, found by search.
MultipleBelow(x) == CHOOSE m \in (x - 9)..x : m % 10 = 0
MultipleAbove(x) == CHOOSE m \in x..(x + 9) : m % 10 = 0

\* C10: the window an EventSource asks for has start = floor(min/10)*10 - 10
\* and end = ceil(max/10)*10 - 10 over the notification's timestamps, start
\* one step earlier when the two are equal; so start < end, both are multiples
\* of 10, and end is below the greatest timestamp.
C10_ExportWindow ==
    \A s \in Sources :
        query[s] # NoQuery =>
            LET lo == MultipleBelow(Min(query[s].timestamps)) - 10
                hi == MultipleAbove(Max(query[s].timestamps)) - 10
            IN /\ query[s].end = hi
               /\ query[s].start = IF lo = hi THEN lo - 10 ELSE lo
               /\ query[s].start < query[s].end
               /\ query[s].start % 10 = 0 /\ query[s].end % 10 = 0
               /\ query[s].end < Max(query[s].timestamps)
               /\ query[s].aggregate = FALSE

\* A notification with the one timestamp 10: floor and ceiling agree, and the
\* start is moved back by a step.
C10_Witness ==
    /\ query[1].timestamps = {10}
    /\ query[1].start = 0 - 10 /\ query[1].end = 0

\* C11: an EventSource whose cancellation signal is set runs no export query
\* and emits no ADDED event, whatever it takes from its queue afterwards.
C11_PostCancelDiscard ==
    [][\A s \in Sources :
          cancel[s] => query'[s] = query[s] /\ events'[s] = events[s]]_vars

\* C12: when an EventSource takes a notification from its queue, either one
\* ADDED event is sent or the failure is caught and no event is sent; either
\* way the query was for the notification's (name, identifier) with
\* aggregate false, the subscription map is as before, and the loop goes on.
C12_QueryFailureTolerated ==
    [][\A s \in Sources :
          Len(queue'[s]) < Len(queue[s]) =>
              /\ \/ events'[s] = events[s] + 1 /\ failed'[s] = failed[s]
                 \/ events'[s] = events[s] /\ failed'[s] = failed[s] + 1
              /\ RRD_TYPE_QUEUES_EVENT' = RRD_TYPE_QUEUES_EVENT
              /\ spc'[s] = "run" /\ sexc'[s] = ""
              /\ query'[s].name = Head(queue[s]).nameident[1]
              /\ query'[s].identifier = Head(queue[s]).nameident[2]
              /\ query'[s].aggregate = FALSE]_vars

\* An EventSource had a query fail and another succeed, and its queue is in
\* every set it subscribed to.
C12_Witness ==
    /\ failed[1] = 1 /\ events[1] = 1 /\ spc[1] = "run"
    /\ KeysOf(1) # {}
    /\ \A i \in KeysOf(1) : 1 \in RRD_TYPE_QUEUES_EVENT[i].queues

\* C13: on_finish raises no error when a set it is to remove the queue from
\* no longer holds it, and when it is over the queue is in none of the sets.
C13_DoubleUnsubscribeNoOp ==
    \A s \in Sources :
        /\ sexc[s] # "KeyError"
        /\ spc[s] = "finished" => Unsubscribed(s)

\* The subscriptions are settled: no EventSource is inside the loop of line
\* 1288 or inside on_finish.
Settled == \A s \in Sources : spc[s] \in {"idle", "run", "get", "finished"}

\* C14: when the subscribes and unsubscribes are over, the map holds no key
\* whose set is empty.
C14_NoEmptySets ==
    Settled =>
        \A i \in 1..Len(RRD_TYPE_QUEUES_EVENT) : RRD_TYPE_QUEUES_EVENT[i].queues # {}

\* C15: a get_data call whose query holds unit or page together with start
\* or end ends with a validation error, and rrdtool is not run.
C15_BothWindowForms ==
    (/\ gpc # "idle"
     /\ supplied \cap {"unit", "page"} # {}
     /\ supplied \cap {"start", "end"} # {})
        => gpc = "raised" /\ gexc.type = "ValidationErrors" /\ calls = <<>>

\* get_data is over, and the positions of graphs whose name is not registered.
GetDataOver == gpc \in {"raised", "returned"}
UnknownGraphs == {k \in 1..Len(graphs) : graphs[k].name \notin RRD_PLUGINS}

\* rv holds one record per graph of the first n, in the order of graphs.
RecordsInOrder(n) ==
    /\ Len(rv) = n
    /\ \A k \in 1..n :
          rv[k].name = graphs[k].name /\ rv[k].identifier = graphs[k].identifier

\* C16 as stated: a get_data call with a name that is not registered ends
\* with CallError ENOENT; one with registered names only returns one record
\* per graph in the order of the request.
C16_UnknownGraph ==
    GetDataOver =>
        IF UnknownGraphs # {}
        THEN gpc = "raised" /\ gexc.type = "CallError" /\ gexc.errno = "ENOENT"
        ELSE gpc = "returned" /\ RecordsInOrder(Len(graphs))

\* No error came before the lookup of a graph's name could fail: the window
\* was valid and every run of rrdtool succeeded.
NothingFailedBefore ==
    /\ gexc.type # "ValidationErrors"
    /\ \A k \in 1..Len(calls) : calls[k].returncode = 0

\* C16, amended: get_data returns records only when every name is registered,
\* and then one per graph in the order of the request; with a name that is
\* not registered it raises and returns nothing, the error being CallError
\* ENOENT unless the window was invalid or the export of a graph listed before
\* that name failed; with registered names only, a valid window and no
\* failed export it returns.
C16_UnknownGraphAmended ==
    /\ gpc = "returned" => UnknownGraphs = {} /\ RecordsInOrder(Len(graphs))
    /\ (GetDataOver /\ UnknownGraphs # {}) =>
          /\ gpc = "raised"
          /\ NothingFailedBefore =>
                /\ gexc = NotFound(graphs[Min(UnknownGraphs)].name)
                /\ gexc.type = "CallError" /\ gexc.errno = "ENOENT"
                /\ RecordsInOrder(Min(UnknownGraphs) - 1)
    /\ (GetDataOver /\ UnknownGraphs = {} /\ NothingFailedBefore) => gpc = "returned"

\* A call for a registered graph and then one that is not: the first was
\* exported, the second raised ENOENT.
C16_Witness ==
    /\ gpc = "raised" /\ gexc.errno = "ENOENT"
    /\ UnknownGraphs = {2} /\ Len(calls) = 1

\* C17: an export call runs rrdtool at most once; when the run exits
\* non-zero the call raises an error that carries the run's stderr, returns
\* no record and runs rrdtool no more (in get_data: the failed run is the
\* last, and rv holds the records of the runs before it only).
C17_ToolRunAtMostOnce ==
    /\ xpc = "done" =>
          /\ Len(calls) <= 1
          /\ \A k \in 1..Len(calls) :
                calls[k].returncode # 0 =>
                    /\ xout.exc = "RuntimeError"
                    /\ xout.msg = "Failed to export RRD data: " \o calls[k].stderr
                    /\ xout.data = <<>>
    /\ gpc # "idle" =>
          /\ Len(calls) <= Len(rv) + 1
          /\ \A k \in 1..Len(calls) :
                calls[k].returncode # 0 =>
                    /\ k = Len(calls) /\ Len(rv) = k - 1
                    /\ gpc = "raised" /\ gexc.type = "RuntimeError"
                    /\ gexc.msg = "Failed to export RRD data: " \o calls[k].stderr

\* An export whose archive files are all there and whose run of rrdtool
\* exited non-zero.
C17_Witness ==
    /\ xpc = "done" /\ Len(calls) = 1
    /\ calls[1].returncode # 0 /\ calls[1].missing = {}
    /\ xout.exc = "RuntimeError" /\ xout.data = <<>>

\* The series of the rrd types of self whose archive file exists, in order.
RECURSIVE PresentSeries(_, _, _)
PresentSeries(identifier, missing, i) ==
    IF i > Len(self.rrd_types) THEN <<>>
    ELSE (IF RrdPath(self, identifier, self.rrd_types[i][1]) \in missing THEN <<>>
          ELSE <<Defs(self.rrd_types)[i].name>>)
         \o PresentSeries(identifier, missing, i + 1)

\* C18: an export that meets nothing else in its way (its definitions
\* build, rrdtool does not fail for another reason, its aggregations are
\* valid) succeeds with the series of the rrd types whose archive file
\* exists, and fails when no archive file exists.
C18_MissingArchives ==
    (/\ xpc = "done"
     /\ get_defs(self, xout.identifier).exc = ""
     /\ ~xout.fail
     /\ Aggregations(self, xout.aggregate).exc = "")
        => IF PresentSeries(xout.identifier, xout.missing, 1) = <<>>
           THEN xout.exc # ""
           ELSE /\ xout.exc = "" /\ Len(xout.data) = 1
                /\ LET series == PresentSeries(xout.identifier, xout.missing, 1)
                   IN SubSeq(xout.data[1].legend, 1, Len(series)) = series

\* The aggregation names the class of self declares.
Declared == {self.aggregations[k] : k \in 1..Len(self.aggregations)}

\* C19: the aggregations of a record export returns (and of every record of
\* get_data's rv) have keys among min, mean, max and none when aggregate is
\* false; an export with aggregate true on a plugin that declares another
\* aggregation name raises and returns no record.
C19_AggregationValidity ==
    /\ xpc = "done" =>
          /\ \A k \in 1..Len(xout.data) :
                /\ xout.data[k].aggregations \subseteq {"min", "mean", "max"}
                /\ ~xout.aggregate => xout.data[k].aggregations = {}
          /\ (xout.aggregate /\ ~(Declared \subseteq {"min", "mean", "max"}))
                => xout.exc # "" /\ xout.data = <<>>
    /\ \A k \in 1..Len(rv) :
          /\ rv[k].aggregations \subseteq {"min", "mean", "max"}
          /\ ~rquery.aggregate => rv[k].aggregations = {}

\* An export with aggregate true on a plugin that declares min and sum: the
\* run of rrdtool succeeded and the aggregation sum was refused.
C19_Witness ==
    /\ xpc = "done" /\ xout.aggregate /\ "sum" \in Declared
    /\ Len(calls) = 1 /\ calls[1].returncode = 0
    /\ xout.exc = "RuntimeError" /\ xout.msg = "Aggregation 'sum' is invalid."

\* The references of self: <<j, i>> when the transform of the rrd type at
\* position j (from 0) holds %name_i%.
References ==
    {<<j, i>> \in (0..(Len(self.rrd_types) - 1)) \X (0..MaxRef) :
        \E k \in 1..Len(self.rrd_types[j + 1][3]) :
            self.rrd_types[j + 1][3][k] = "%name_" \o ToString(i) \o "%"}

\* The numbers i of the %name_i% that rrd_data_extra of self holds.
ExtraReferences ==
    {i \in 0..MaxRef :
        \E a \in 1..Len(self.rrd_data_extra) :
            /\ self.rrd_data_extra[a].kind = "CDEF"
            /\ \E k \in 1..Len(self.rrd_data_extra[a].expr) :
                  self.rrd_data_extra[a].expr[k] = "%name_" \o ToString(i) \o "%"}

\* The name of the series of the rrd type at position j (from 0).
SeriesName(j) == self.rrd_types[j + 1][1] \o "_" \o self.rrd_types[j + 1][2]

\* The transform of position j with %name% and every %name_i% replaced.
Substituted(j) ==
    [k \in 1..Len(self.rrd_types[j + 1][3]) |->
        LET token == self.rrd_types[j + 1][3][k] IN
        IF token = "%name%" THEN SeriesName(j)
        ELSE IF \E i \in 0..MaxRef : <<j, i>> \in References
                                     /\ token = "%name_" \o ToString(i) \o "%"
             THEN SeriesName(CHOOSE i \in 0..MaxRef :
                                 token = "%name_" \o ToString(i) \o "%")
             ELSE token]

\* The definitions export handed to rrdtool hold, for every rrd type with a
\* transform, its CDEF with the references replaced.
DefinitionsSubstituted ==
    /\ Len(calls) = 1
    /\ \A j \in 0..(Len(self.rrd_types) - 1) :
          self.rrd_types[j + 1][3] # None =>
              \E a \in 1..Len(calls[1].args) :
                  /\ calls[1].args[a].kind = "CDEF"
                  /\ calls[1].args[a].vname = "c" \o SeriesName(j)
                  /\ calls[1].args[a].expr = Substituted(j)

DefsArgs == get_defs(self, xout.identifier).args

\* Entry b of the argument list is the XPORT of the rrd type at position i:
\* of its series when it has no transform, and otherwise of the c-series
\* whose CDEF is the entry before it.
IsXportOf(args, b, i) ==
    LET name == Defs(self.rrd_types)[i].name IN
    /\ args[b].kind = "XPORT" /\ args[b].legend = name
    /\ IF self.rrd_types[i][3] = None
       THEN args[b].vname = name
       ELSE /\ args[b].vname = "c" \o name
            /\ b > 1 /\ args[b - 1].kind = "CDEF" /\ args[b - 1].vname = "c" \o name

\* C21: when get_defs returns, its list holds one
\* DEF:<type>_<field>=<path>:<field>:AVERAGE per rrd type in declaration
\* order and no other DEF, every DEF stands before every CDEF and XPORT,
\* every rrd type has exactly one XPORT (with its CDEF before it when it has
\* a transform), and no entry holds %name% or %name_<number>%.
C21_ArgumentListShape ==
    (xpc = "done" /\ get_defs(self, xout.identifier).exc = "") =>
        LET args == DefsArgs
            n == Len(self.rrd_types)
        IN /\ Len(args) >= n
           /\ \A i \in 1..n :
                 args[i] = [kind |-> "DEF",
                            vname |-> self.rrd_types[i][1] \o "_" \o self.rrd_types[i][2],
                            path |-> RrdPath(self, xout.identifier, self.rrd_types[i][1]),
                            dsname |-> self.rrd_types[i][2]]
           /\ \A a \in 1..Len(args) : args[a].kind = "DEF" => a <= n
           /\ \A a, b \in 1..Len(args) :
                 (args[a].kind = "DEF" /\ args[b].kind \in {"CDEF", "XPORT"}) => a < b
           /\ \A i \in 1..n :
                 Cardinality({b \in 1..Len(args) : IsXportOf(args, b, i)}) = 1
           /\ \A a \in 1..Len(args) :
                 args[a].kind = "CDEF" =>
                     \A k \in 1..Len(args[a].expr) :
                         /\ args[a].expr[k] # "%name%"
                         /\ RefNumbers(args[a].expr[k]) = {}

\* get_defs returned the list of a plugin with two rrd types, the first with
\* a transform that refers to the second, and with rrd_data_extra; the list
\* went to rrdtool.
C21_Witness ==
    /\ xpc = "done" /\ Len(self.rrd_types) = 2
    /\ self.rrd_types[1][3] = <<"%name%", ",", "%name_1%", ",+">>
    /\ self.rrd_types[2][3] = None
    /\ self.rrd_data_extra = ExtraBoth
    /\ get_defs(self, xout.identifier).exc = ""
    /\ Len(calls) = 1 /\ calls[1].args = DefsArgs
    /\ Len(DefsArgs) = 7
    /\ DefsArgs[6].expr = <<"ct0_value", ",", "t1_value", ",+">>

\* The idents of the scan that get_identifiers lets through.
Passed == {Appended(iname, scan)[k] : k \in 1..Len(Appended(iname, scan))}

\* a stands before b in the order by non-numeric prefix, then by the number
\* at the end as an integer (an entry without a number at its end is its own
\* prefix and stands before those with one).
PrefixNumberBefore(a, b) ==
    LET ra == NameNumber(a)
        rb == NameNumber(b)
        pa == IF ra.match THEN ra.name ELSE a
        pb == IF rb.match THEN rb.name ELSE b
        na == IF ra.match THEN IntOf(ra.number) ELSE -1
        nb == IF rb.match THEN IntOf(rb.number) ELSE -1
    IN StrLess(pa, pb) \/ (pa = pb /\ na < nb)

\* C22: what get_identifiers returns for a scanning plugin holds every ident
\* the scan let through once, each before those of a greater prefix and,
\* within a prefix, of a greater number: the same list for every order of
\* the scan.
C22_IdentifierOrder ==
    ipc = "done" =>
        /\ {ids[k] : k \in 1..Len(ids)} = Passed
        /\ Len(ids) = Cardinality(Passed)
        /\ \A i, j \in 1..Len(ids) : i < j => PrefixNumberBefore(ids[i], ids[j])

\* C23: a class definition leaves every entry of the plugin table as it is,
\* and a class whose name the table already holds is not defined (its
\* definition raises).
C23_DuplicateNameRejected ==
    [][/\ \A n \in DOMAIN rrd_plugins :
             n \in DOMAIN rrd_plugins' /\ rrd_plugins'[n] = rrd_plugins[n]
       /\ Len(classes') > Len(classes)
             => classes'[Len(classes')].name \notin DOMAIN rrd_plugins]_vars

\* The call of reporting.update changes graph_timespans or graph_rows and
\* has no confirm_rrd_destroy = true.
ChangesUnconfirmed ==
    /\ upc # "idle"
    /\ \E k \in {"graph_timespans", "graph_rows"} :
          k \in udata.keys /\ udata[k] # frame.old[k]
    /\ ~("confirm_rrd_destroy" \in udata.keys /\ udata.confirm_rrd_destroy)

\* C24: a reporting.update that changes graph_timespans or graph_rows
\* without confirm_rrd_destroy = true ends in ValidationErrors with the
\* stored configuration as it was, no service call made, collectd as it
\* was, and the archive files and PERSIST_FILE as they were.
C24_UnconfirmedDestroyRejected ==
    ChangesUnconfirmed =>
        /\ upc = "raised" /\ uexc = "ValidationErrors"
        /\ config = frame.old
        /\ services = <<>> /\ collectd = frame.before.collectd
        /\ database = frame.before.database
        /\ persist_file = frame.before.persist_file

\* A call that changes graph_rows with confirm_rrd_destroy = false was
\* refused.
C24_Witness ==
    /\ upc = "raised" /\ uexc = "ValidationErrors"
    /\ udata.keys = {"graph_rows", "confirm_rrd_destroy"}
    /\ udata.graph_rows # frame.old.graph_rows /\ ~udata.confirm_rrd_destroy
    /\ config = frame.old /\ database

\* C30: when a call of reporting.update that stopped collectd has ended, by
\* return or by an exception, its last service call is the restart and
\* collectd is running.
C30_RestartAfterStop ==
    (upc \in {"returned", "raised"} /\ \E k \in 1..Len(services) : services[k] = "stop") =>
        /\ services[Len(services)] = "restart"
        /\ collectd = "running"

\* C29: the window of page p of unit u is one unit long and ends p units
\* before now, and the window of page p starts where that of page p + 1
\* ends.
C29_RelativeWindowsTile ==
    \A p \in DOMAIN tiles :
        LET unit == Seconds(FirstLower(tunit)) IN
        /\ tiles[p].end = tnow - p * unit
        /\ tiles[p].end - tiles[p].start = unit
        /\ (p + 1) \in DOMAIN tiles => tiles[p].start = tiles[p + 1].end

\* C25: a query of the graph of an ingested sample over a window that holds
\* its timestamp returns one record whose data is exactly that sample: its
\* value at its timestamp.
C25_RoundTrip ==
    gpc = "returned" =>
        \A sample \in RoundTripSamples :
            (LineOf(sample) \in {processed[k] : k \in 1..Len(processed)}
             /\ graphs = <<sample.graph>>)
                => Len(rv) = 1 /\ rv[1].data = {RowOf(sample)}

\* The queue of s is in the set of the map under (name, nameident).
Registered(s, name, nameident) ==
    \E i \in 1..Len(RRD_TYPE_QUEUES_EVENT) :
        /\ RRD_TYPE_QUEUES_EVENT[i].name = name
        /\ RRD_TYPE_QUEUES_EVENT[i].nameident = nameident
        /\ s \in RRD_TYPE_QUEUES_EVENT[i].queues

\* C26: an EventSource that has left the loop of line 1288 has its queue in
\* the set under (plugin.type.field, (name, identifier)) for every graph of
\* its request and every rrd type of the graph's plugin; one whose request
\* is no JSON or names an unknown graph has its queue in no set.
C26_SubscriptionAllOrNothing ==
    \A s \in Sources :
        /\ Subscribed(s) =>
              \A k \in 1..Len(arg[s]) :
                  LET g == arg[s][k]
                      rrd_types == get_rrd_types(g.name, g.identifier)
                  IN \A j \in 1..Len(rrd_types) :
                        Registered(s, plugin(g.name) \o "." \o rrd_types[j][1]
                                      \o "." \o rrd_types[j][2],
                                   <<g.name, g.identifier>>)
        /\ (spc[s] # "idle" /\ ~Resolves(arg[s])) =>
              \A i \in 1..Len(RRD_TYPE_QUEUES_EVENT) : s \notin RRD_TYPE_QUEUES_EVENT[i].queues

\* One EventSource has subscribed to the four keys of disk and swap while
\* another, asked for swap and an unknown graph, has ended with nothing
\* registered.
C26_Witness ==
    \E s, t \in Sources :
        /\ Subscribed(s) /\ Len(arg[s]) = 2 /\ Len(queue_reverse[s]) = 4
        /\ arg[t] = <<Graph("swap", None), Graph("nosuch", None)>>
        /\ spc[t] = "finished" /\ queue_reverse[t] = <<>>

\* C27: a subscriber set of RRD_TYPE_QUEUES_EVENT is changed by an EventSource
\* only while the handler neither holds RRD_TYPE_QUEUES_EVENT_LOCK nor is
\* inside its iteration of that set.
C27_MapMutualExclusion ==
    [][\A i \in 1..Len(RRD_TYPE_QUEUES_EVENT) :
          RRD_TYPE_QUEUES_EVENT'[i].queues # RRD_TYPE_QUEUES_EVENT[i].queues
              => /\ RRD_TYPE_QUEUES_EVENT_LOCK # Handler
                 /\ ~(hpc = "iter" /\ nameident_queues[didx].v = i)]_vars

\* C28: when handle has returned on the peer's close, every complete line of
\* the bytes it received before the close has been through the loop of line
\* 1185, the lines of the last burst included.
C28_NoLineLostOnClose ==
    hpc = "returned" =>
        \A i \in 1..Len(CompleteLines(received)) :
            /\ i <= Len(processed)
            /\ processed[i] = CompleteLines(received)[i]
====
